---------------------------- MODULE Spec2Model ----------------------------
(***************************************************************************)
(* The record stores of the repository: the student-performance tool       *)
(* (src/AOL_Unit2.py) and the library catalogue (src/Final_Project.py).    *)
(*                                                                         *)
(* A Python str is a sequence of one-character strings, so that strip(),   *)
(* split(), lower(), int() and str() are computed, not assumed.  A float   *)
(* is an exact fraction [num, den] (den > 0): every float the programs     *)
(* compute here is a quotient of small integers, on which float            *)
(* comparison agrees with the comparison of the fractions.                 *)
(***************************************************************************)
EXTENDS Integers, Sequences, FiniteSets, TLC

\* ------------------------------------------------------------------ str

\* The characters str.strip() and str.split() treat as whitespace.
WHITESPACE == {" ", "\t"}

RECURSIVE lstrip(_)
lstrip(s) == IF s /= <<>> /\ Head(s) \in WHITESPACE THEN lstrip(Tail(s)) ELSE s

RECURSIVE rstrip(_)
rstrip(s) ==
    IF s /= <<>> /\ s[Len(s)] \in WHITESPACE
    THEN rstrip(SubSeq(s, 1, Len(s) - 1))
    ELSE s

\* str.strip(): the text without its leading and trailing whitespace.
strip(s) == rstrip(lstrip(s))

\* str.lower() on one character.
lower_char(c) ==
    CASE c = "A" -> "a"
      [] c = "B" -> "b"
      [] c = "C" -> "c"
      [] c = "F" -> "f"
      [] c = "I" -> "i"
      [] c = "M" -> "m"
      [] c = "N" -> "n"
      [] c = "S" -> "s"
      [] OTHER -> c

\* str.lower().
lower(s) == [i \in 1..Len(s) |-> lower_char(s[i])]

\* ord() of the characters the model uses.
ord(c) ==
    CASE c = "\t" -> 9
      [] c = " " -> 32
      [] c = "+" -> 43
      [] c = "-" -> 45
      [] c = "/" -> 47
      [] c = "0" -> 48
      [] c = "1" -> 49
      [] c = "2" -> 50
      [] c = "3" -> 51
      [] c = "4" -> 52
      [] c = "5" -> 53
      [] c = "6" -> 54
      [] c = "7" -> 55
      [] c = "8" -> 56
      [] c = "9" -> 57
      [] c = "A" -> 65
      [] c = "B" -> 66
      [] c = "C" -> 67
      [] c = "F" -> 70
      [] c = "I" -> 73
      [] c = "M" -> 77
      [] c = "N" -> 78
      [] c = "S" -> 83
      [] c = "_" -> 95
      [] c = "a" -> 97
      [] c = "b" -> 98
      [] c = "c" -> 99
      [] c = "d" -> 100
      [] c = "e" -> 101
      [] c = "f" -> 102
      [] c = "g" -> 103
      [] c = "h" -> 104
      [] c = "i" -> 105
      [] c = "k" -> 107
      [] c = "l" -> 108
      [] c = "m" -> 109
      [] c = "n" -> 110
      [] c = "o" -> 111
      [] c = "p" -> 112
      [] c = "r" -> 114
      [] c = "s" -> 115
      [] c = "t" -> 116
      [] c = "u" -> 117
      [] c = "v" -> 118
      [] c = "w" -> 119
      [] c = "x" -> 120
      [] c = "y" -> 121

\* s > t on str: lexicographic by code point, a proper prefix being smaller.
RECURSIVE str_gt(_, _)
str_gt(s, t) ==
    IF s = <<>> THEN FALSE
    ELSE IF t = <<>> THEN TRUE
    ELSE IF Head(s) /= Head(t) THEN ord(Head(s)) > ord(Head(t))
    ELSE str_gt(Tail(s), Tail(t))

DIGITS == {"0", "1", "2", "3", "4", "5", "6", "7", "8", "9"}

digit_value(c) == ord(c) - 48

\* The value of a non-empty string of decimal digits.
RECURSIVE digits_value(_)
digits_value(s) ==
    IF s = <<>> THEN 0
    ELSE 10 * digits_value(SubSeq(s, 1, Len(s) - 1)) + digit_value(s[Len(s)])

all_digits(s) == s /= <<>> /\ \A i \in 1..Len(s) : s[i] \in DIGITS

\* str.isdigit(): non-empty and every character a digit.
isdigit(s) == all_digits(s)

\* int(s): surrounding whitespace is ignored, one sign is allowed, the rest
\* must be decimal digits; anything else raises ValueError (ok = FALSE).
int(s) ==
    LET t == strip(s)
        signed == t /= <<>> /\ Head(t) \in {"+", "-"}
        body == IF signed THEN Tail(t) ELSE t
    IN  IF all_digits(body)
        THEN [ok |-> TRUE,
              val |-> IF signed /\ Head(t) = "-"
                      THEN 0 - digits_value(body)
                      ELSE digits_value(body)]
        ELSE [ok |-> FALSE, val |-> 0]

digit_char(d) ==
    CASE d = 0 -> "0" [] d = 1 -> "1" [] d = 2 -> "2" [] d = 3 -> "3"
      [] d = 4 -> "4" [] d = 5 -> "5" [] d = 6 -> "6" [] d = 7 -> "7"
      [] d = 8 -> "8" [] d = 9 -> "9"

RECURSIVE nat_str(_)
nat_str(n) ==
    IF n < 10 THEN <<digit_char(n)>>
    ELSE Append(nat_str(n \div 10), digit_char(n % 10))

\* str(n) of an int, as csv.DictWriter and Book.to_row write it.
str(n) == IF n < 0 THEN <<"-">> \o nat_str(0 - n) ELSE nat_str(n)


\* ---------------------------------------------------------------- float

\* A float as the exact fraction num/den, den > 0.
Float(n, d) == [num |-> n, den |-> d]

NaN == [num |-> 0, den |-> 0]

\* The comparisons of two floats; every comparison with NaN is false.
float_lt(a, b) == a.den /= 0 /\ b.den /= 0 /\ a.num * b.den < b.num * a.den

float_gt(a, b) == a.den /= 0 /\ b.den /= 0 /\ a.num * b.den > b.num * a.den

float_eq(a, b) == a.den /= 0 /\ b.den /= 0 /\ a.num * b.den = b.num * a.den

\* ------------------------------------------------------------ csv files

\* dict.get() of a key the row does not hold.
None == <<"None">>

\* (x or ""): None and the empty string both give the empty string.
or_empty(x) == IF x = None THEN <<>> ELSE x

\* A text resource as csv.reader sees it: whether it exists, its first row
\* (the header), the rows after it, and err_after, the number of data rows
\* the reader yields before a read raises (-1: the whole file reads).
File(names, rows) ==
    [exists |-> TRUE, fieldnames |-> names, rows |-> rows, err_after |-> -1]

NoFile == [exists |-> FALSE, fieldnames |-> <<>>, rows |-> <<>>, err_after |-> -1]

\* csv.DictReader's row: dict(zip(fieldnames, values)), a later column of
\* the same name winning, a column the row is too short for being None.
row_get(fieldnames, values, key) ==
    LET at == {i \in 1..Len(fieldnames) : fieldnames[i] = key}
        last == CHOOSE i \in at : \A j \in at : j <= i
    IN  IF at = {} THEN None
        ELSE IF last > Len(values) THEN None
        ELSE values[last]

\* csv.DictReader skips the rows that hold no field at all.
RECURSIVE dict_rows(_)
dict_rows(rows) ==
    IF rows = <<>> THEN <<>>
    ELSE IF Head(rows) = <<>> THEN dict_rows(Tail(rows))
    ELSE <<Head(rows)>> \o dict_rows(Tail(rows))

\* ------------------------------------------------- AOL_Unit2.py: records

COL_student_id == <<"s", "t", "u", "d", "e", "n", "t", "_", "i", "d">>
COL_gender == <<"g", "e", "n", "d", "e", "r">>
COL_race == <<"r", "a", "c", "e", "/", "e", "t", "h", "n", "i", "c", "i", "t", "y">>
COL_parental ==
    <<"p", "a", "r", "e", "n", "t", "a", "l", " ", "l", "e", "v", "e", "l", " ",
      "o", "f", " ", "e", "d", "u", "c", "a", "t", "i", "o", "n">>
COL_lunch == <<"l", "u", "n", "c", "h">>
COL_prep ==
    <<"t", "e", "s", "t", " ", "p", "r", "e", "p", "a", "r", "a", "t", "i", "o", "n",
      " ", "c", "o", "u", "r", "s", "e">>
COL_math == <<"m", "a", "t", "h", " ", "s", "c", "o", "r", "e">>
COL_reading == <<"r", "e", "a", "d", "i", "n", "g", " ", "s", "c", "o", "r", "e">>
COL_writing == <<"w", "r", "i", "t", "i", "n", "g", " ", "s", "c", "o", "r", "e">>

REQUIRED_COLS ==
    {COL_gender, COL_race, COL_parental, COL_lunch, COL_prep,
     COL_math, COL_reading, COL_writing}

StudentRecord(sid, gender, race, parent_edu, lunch, prep, m, r, w) ==
    [student_id |-> sid, gender |-> gender, race_ethnicity |-> race,
     parental_education |-> parent_edu, lunch |-> lunch, prep_course |-> prep,
     math_score |-> m, reading_score |-> r, writing_score |-> w]

\* StudentRecord.average(): the sum of the three scores over 3.0.
average(rec) ==
    Float(rec.math_score + rec.reading_score + rec.writing_score, 3)

\* The columns save_to_csv writes, in order.
save_fieldnames ==
    <<COL_student_id, COL_gender, COL_race, COL_parental, COL_lunch, COL_prep,
      COL_math, COL_reading, COL_writing>>

\* A variant of to_row that writes the reading and writing scores in each
\* other's column.
to_row_scores_swapped(rec) ==
    <<str(rec.student_id), rec.gender, rec.race_ethnicity,
      rec.parental_education, rec.lunch, rec.prep_course,
      str(rec.math_score), str(rec.writing_score), str(rec.reading_score)>>

\* StudentRecord.to_row() as csv.DictWriter writes it: str() of each value,
\* in the order of the fieldnames.
to_row(rec) ==
    <<str(rec.student_id), rec.gender, rec.race_ethnicity,
      rec.parental_education, rec.lunch, rec.prep_course,
      str(rec.math_score), str(rec.reading_score), str(rec.writing_score)>>

\* The body of load_from_csv's loop for one row: the record it appends with
\* the id it is given, or ok = FALSE when the row raises and is skipped.
decode_row(fieldnames, values, student_id) ==
    LET gender == strip(or_empty(row_get(fieldnames, values, COL_gender)))
        race == strip(or_empty(row_get(fieldnames, values, COL_race)))
        parent_edu == strip(or_empty(row_get(fieldnames, values, COL_parental)))
        lunch == strip(or_empty(row_get(fieldnames, values, COL_lunch)))
        prep == strip(or_empty(row_get(fieldnames, values, COL_prep)))
        m == int(strip(or_empty(row_get(fieldnames, values, COL_math))))
        r == int(strip(or_empty(row_get(fieldnames, values, COL_reading))))
        w == int(strip(or_empty(row_get(fieldnames, values, COL_writing))))
        texts == gender /= <<>> /\ race /= <<>> /\ parent_edu /= <<>>
                 /\ lunch /= <<>> /\ prep /= <<>>
        scores == 0 <= m.val /\ m.val <= 100 /\ 0 <= r.val /\ r.val <= 100
                  /\ 0 <= w.val /\ w.val <= 100
    IN  [ok |-> m.ok /\ r.ok /\ w.ok /\ texts /\ scores,
         rec |-> StudentRecord(student_id, gender, race, parent_edu, lunch,
                               prep, m.val, r.val, w.val)]

\* A variant of load_rows that counts every row, stored or skipped.
RECURSIVE load_rows_counting_skipped(_, _, _)
load_rows_counting_skipped(fieldnames, rows, student_id) ==
    IF rows = <<>> THEN <<>>
    ELSE LET d == decode_row(fieldnames, Head(rows), student_id)
         IN  IF d.ok
             THEN <<d.rec>> \o load_rows_counting_skipped(fieldnames, Tail(rows),
                                                          student_id + 1)
             ELSE load_rows_counting_skipped(fieldnames, Tail(rows),
                                             student_id + 1)

\* load_from_csv's loop over the rows, student_id being the next id to give.
RECURSIVE load_rows(_, _, _)
load_rows(fieldnames, rows, student_id) ==
    IF rows = <<>> THEN <<>>
    ELSE LET d == decode_row(fieldnames, Head(rows), student_id)
         IN  IF d.ok
             THEN <<d.rec>> \o load_rows(fieldnames, Tail(rows), student_id + 1)
             ELSE load_rows(fieldnames, Tail(rows), student_id)

\* The row numbers (row_idx, the first data row being 2) of the "[Load
\* warning] Skipped row" lines the loop prints.
RECURSIVE load_warnings(_, _, _)
load_warnings(fieldnames, rows, row_idx) ==
    IF rows = <<>> THEN <<>>
    ELSE IF decode_row(fieldnames, Head(rows), 1).ok
         THEN load_warnings(fieldnames, Tail(rows), row_idx + 1)
         ELSE <<row_idx>> \o load_warnings(fieldnames, Tail(rows), row_idx + 1)

\* The rows the reader yields before the read raises, if it does.
rows_read(file) ==
    IF file.err_after < 0 THEN dict_rows(file.rows)
    ELSE SubSeq(dict_rows(file.rows), 1, file.err_after)

\* load_from_csv(path): the list it returns and the diagnostic it prints.
load_from_csv(file) ==
    LET named == {i \in 1..Len(file.fieldnames) : file.fieldnames[i] /= <<>>}
        headers == {strip(file.fieldnames[i]) : i \in named}
    IN  IF ~file.exists
        THEN [records |-> <<>>, diag |-> "not_found", warnings |-> <<>>]
        ELSE IF file.fieldnames = <<>>
        THEN [records |-> <<>>, diag |-> "no_header", warnings |-> <<>>]
        ELSE IF REQUIRED_COLS \ headers /= {}
        THEN [records |-> <<>>, diag |-> "missing_columns", warnings |-> <<>>]
        ELSE [records |-> load_rows(file.fieldnames, rows_read(file), 1),
              diag |-> IF file.err_after < 0 THEN "ok" ELSE "read_error",
              warnings |-> load_warnings(file.fieldnames, rows_read(file), 2)]

\* The resource save_to_csv(path, records) leaves behind.
save_to_csv(recs) ==
    File(save_fieldnames, [i \in 1..Len(recs) |-> to_row(recs[i])])

\* ------------------------------------------ AOL_Unit2.py: search and sort

\* A variant of linear_search_from whose scan stops one record early.
RECURSIVE linear_search_stops_early(_, _, _)
linear_search_stops_early(recs, target_id, i) ==
    IF i >= Len(recs) THEN -1
    ELSE IF recs[i].student_id = target_id THEN i
    ELSE linear_search_stops_early(recs, target_id, i + 1)

\* linear_search_by_id: the index (from 1 here, from 0 in the source) of the
\* first record whose student_id is target_id, scanning from index i; -1
\* when there is none.
RECURSIVE linear_search_from(_, _, _)
linear_search_from(recs, target_id, i) ==
    IF i > Len(recs) THEN -1
    ELSE IF recs[i].student_id = target_id THEN i
    ELSE linear_search_from(recs, target_id, i + 1)

linear_search_by_id(recs, target_id) == linear_search_from(recs, target_id, 1)

\* The sort keys of sort_records.  A key is a number held as a fraction: an
\* int n is n/1.
key_average(rec) == average(rec)

key_math(rec) == Float(rec.math_score, 1)

key_reading(rec) == Float(rec.reading_score, 1)

key_writing(rec) == Float(rec.writing_score, 1)

\* The key function handed to the sort, by the name of its field (bid: the
\* key of LibrarySystem.sort_by_id_builtin).
key_fn(key, rec) ==
    CASE key = "average" -> key_average(rec)
      [] key = "math" -> key_math(rec)
      [] key = "reading" -> key_reading(rec)
      [] key = "writing" -> key_writing(rec)
      [] OTHER -> Float(rec.bid, 1)

\* A variant of shift_insert that ignores reverse.
RECURSIVE shift_insert_ascending_only(_, _, _, _, _)
shift_insert_ascending_only(recs, j, current, key, reverse) ==
    IF j >= 1 /\ float_gt(key_fn(key, recs[j]), key_fn(key, current))
    THEN shift_insert_ascending_only([recs EXCEPT ![j + 1] = recs[j]], j - 1,
                                     current, key, reverse)
    ELSE [recs EXCEPT ![j + 1] = current]

\* A variant of shift_insert that does not put current in the gap.
RECURSIVE shift_insert_leaves_gap(_, _, _, _, _)
shift_insert_leaves_gap(recs, j, current, key, reverse) ==
    IF j >= 1 /\ (IF reverse
                  THEN float_lt(key_fn(key, recs[j]), key_fn(key, current))
                  ELSE float_gt(key_fn(key, recs[j]), key_fn(key, current)))
    THEN shift_insert_leaves_gap([recs EXCEPT ![j + 1] = recs[j]], j - 1,
                                 current, key, reverse)
    ELSE recs

\* A variant of shift_insert that also shifts the records of the same key.
RECURSIVE shift_insert_past_equal(_, _, _, _, _)
shift_insert_past_equal(recs, j, current, key, reverse) ==
    IF j >= 1 /\ (IF reverse
                  THEN ~float_gt(key_fn(key, recs[j]), key_fn(key, current))
                  ELSE ~float_lt(key_fn(key, recs[j]), key_fn(key, current)))
    THEN shift_insert_past_equal([recs EXCEPT ![j + 1] = recs[j]], j - 1,
                                 current, key, reverse)
    ELSE [recs EXCEPT ![j + 1] = current]

\* insertion_sort's while loop: shift the records at j, j-1, ... one place
\* to the right while their key is greater (less, when reverse) than
\* current's, then put current in the gap.
RECURSIVE shift_insert(_, _, _, _, _)
shift_insert(recs, j, current, key, reverse) ==
    IF j >= 1 /\ (IF reverse
                  THEN float_lt(key_fn(key, recs[j]), key_fn(key, current))
                  ELSE float_gt(key_fn(key, recs[j]), key_fn(key, current)))
    THEN shift_insert([recs EXCEPT ![j + 1] = recs[j]], j - 1, current,
                      key, reverse)
    ELSE [recs EXCEPT ![j + 1] = current]

\* A variant of insertion_sort_from that inserts every other record only.
RECURSIVE insertion_sort_every_other(_, _, _, _)
insertion_sort_every_other(recs, i, key, reverse) ==
    IF i > Len(recs) THEN recs
    ELSE insertion_sort_every_other(
             shift_insert(recs, i - 1, recs[i], key, reverse),
             i + 2, key, reverse)

\* insertion_sort's for loop, from index i on.
RECURSIVE insertion_sort_from(_, _, _, _)
insertion_sort_from(recs, i, key, reverse) ==
    IF i > Len(recs) THEN recs
    ELSE insertion_sort_from(shift_insert(recs, i - 1, recs[i], key, reverse),
                             i + 1, key, reverse)

insertion_sort(recs, key, reverse) ==
    insertion_sort_from(recs, 2, key, reverse)

\* Python's sorted(records, key=..., reverse=...): a stable sort, also when
\* reverse is set.  Computed by selection: the first record of the least
\* (greatest, when reverse) key comes first.
RECURSIVE sorted(_, _, _)
sorted(recs, key, reverse) ==
    IF recs = <<>> THEN <<>>
    ELSE LET first(i) ==
                 \A j \in 1..Len(recs) :
                     /\ ~(IF reverse
                          THEN float_gt(key_fn(key, recs[j]), key_fn(key, recs[i]))
                          ELSE float_lt(key_fn(key, recs[j]), key_fn(key, recs[i])))
                     /\ (j < i => ~float_eq(key_fn(key, recs[j]),
                                            key_fn(key, recs[i])))
             i == CHOOSE k \in 1..Len(recs) : first(k)
         IN  <<recs[i]>>
             \o sorted(SubSeq(recs, 1, i - 1) \o SubSeq(recs, i + 1, Len(recs)),
                       key, reverse)

\* sort_records: the list after the chosen sort.
sort_records(recs, choice, desc) ==
    CASE choice = 1 -> insertion_sort(recs, "average", desc)
      [] choice = 2 -> insertion_sort(recs, "math", desc)
      [] choice = 3 -> sorted(recs, "reading", desc)
      [] OTHER -> sorted(recs, "writing", desc)

\* ------------------------------------------------ AOL_Unit2.py: statistics

RECURSIVE sum(_)
sum(values) == IF values = <<>> THEN 0 ELSE Head(values) + sum(Tail(values))

\* A variant of mean that divides with //.
mean_floor_division(values) ==
    IF values /= <<>> THEN Float(sum(values) \div Len(values), 1) ELSE NaN

\* A variant of mean that gives 0.0 for an empty list.
mean_zero_on_empty(values) ==
    IF values /= <<>> THEN Float(sum(values), Len(values)) ELSE Float(0, 1)

\* mean(values): sum/len, NaN for an empty list.
mean(values) == IF values /= <<>> THEN Float(sum(values), Len(values)) ELSE NaN

\* The largest r in lo..hi with r * r <= k.
RECURSIVE isqrt_between(_, _, _)
isqrt_between(k, lo, hi) ==
    IF lo = hi THEN lo
    ELSE LET mid == (lo + hi + 1) \div 2
         IN  IF mid * mid <= k THEN isqrt_between(k, mid, hi)
             ELSE isqrt_between(k, lo, mid - 1)

\* math.sqrt(x) to the two decimals summary_statistics prints, rounded down;
\* the square root of NaN is NaN.
sqrt(x) ==
    IF x.den = 0 THEN NaN
    ELSE LET k == (x.num * 10000) \div x.den
         IN  Float(isqrt_between(k, 0, IF k < 40000 THEN k ELSE 40000), 100)

\* sum((x - m) ** 2 for x in values) for m = total/n, in units of 1/(n*n).
RECURSIVE sum_sq_dev(_, _, _)
sum_sq_dev(values, total, n) ==
    IF values = <<>> THEN 0
    ELSE (n * Head(values) - total) * (n * Head(values) - total)
         + sum_sq_dev(Tail(values), total, n)

\* stdev(values): NaN for an empty list, else the square root of the mean
\* of the squared distances to the mean.
stdev(values) ==
    IF values = <<>> THEN NaN
    ELSE LET m == mean(values)
         IN  sqrt(Float(sum_sq_dev(values, m.num, m.den),
                        m.den * m.den * Len(values)))

\* The values of a list, as a set.
elements(values) == {values[i] : i \in 1..Len(values)}

\* Python's min and max of a list of integers: ValueError on an empty list.
min(values) ==
    [raised |-> values = <<>>,
     val |-> IF values = <<>> THEN 0
             ELSE CHOOSE v \in elements(values) : \A w \in elements(values) : v <= w]

max(values) ==
    [raised |-> values = <<>>,
     val |-> IF values = <<>> THEN 0
             ELSE CHOOSE v \in elements(values) : \A w \in elements(values) : v >= w]

\* summary_statistics(records): "No data loaded." for an empty list; else the
\* lines of math, reading and writing (mean, stdev, min, max) and the line of
\* the averages (mean, min, max; an average is its three scores over 3).
\* status is what the call ends with. The prep-course comparison that
\* follows the lines is not modelled.
summary_statistics(recs) ==
    IF recs = <<>> THEN [status |-> "no_data", lines |-> <<>>]
    ELSE LET ms == [i \in 1..Len(recs) |-> recs[i].math_score]
             rs == [i \in 1..Len(recs) |-> recs[i].reading_score]
             ws == [i \in 1..Len(recs) |-> recs[i].writing_score]
             av == [i \in 1..Len(recs) |-> ms[i] + rs[i] + ws[i]]
             line(values) == <<mean(values), stdev(values),
                               Float(min(values).val, 1),
                               Float(max(values).val, 1)>>
         IN  [status |-> IF \E values \in {ms, rs, ws, av} :
                                min(values).raised \/ max(values).raised
                         THEN "ValueError" ELSE "ok",
              lines |-> <<line(ms), line(rs), line(ws),
                          <<Float(sum(av), 3 * Len(av)), Float(min(av).val, 3),
                            Float(max(av).val, 3)>>>>]

\* ------------------------------- Final_Project.py: Unit 3 Lesson 3 A.py

PASS_MARK == 50

\* pass_fail(score, mark)
pass_fail(score, mark) == IF score >= mark THEN "Pass" ELSE "Fail"

\* The loop of s_min over the values left, m being the smallest so far.
RECURSIVE s_min_loop(_, _)
s_min_loop(values, m) ==
    IF values = <<>> THEN m
    ELSE s_min_loop(Tail(values), IF Head(values) < m THEN Head(values) ELSE m)

\* s_min(values): 0 for an empty list.
s_min(values) == IF Len(values) = 0 THEN 0 ELSE s_min_loop(values, values[1])

\* The loop of s_max over the values left, m being the largest so far.
RECURSIVE s_max_loop(_, _)
s_max_loop(values, m) ==
    IF values = <<>> THEN m
    ELSE s_max_loop(Tail(values), IF Head(values) > m THEN Head(values) ELSE m)

\* s_max(values): 0 for an empty list.
s_max(values) == IF Len(values) = 0 THEN 0 ELSE s_max_loop(values, values[1])

\* s_average(values): 0.0 for an empty list, else total / len.
s_average(values) ==
    IF Len(values) = 0 THEN Float(0, 1) ELSE Float(sum(values), Len(values))

\* analyze(scores, mark): what it prints. "No scores" and the average 0.0
\* for an empty list; else one Pass/Fail line per score, then Min, Max and
\* Average.
analyze(values, mark) ==
    IF Len(values) = 0
    THEN [status |-> "no_scores", verdicts |-> <<>>, stats |-> <<Float(0, 1)>>]
    ELSE [status |-> "ok",
          verdicts |-> [i \in 1..Len(values) |-> pass_fail(values[i], mark)],
          stats |-> <<Float(s_min(values), 1), Float(s_max(values), 1),
                      s_average(values)>>]

\* ------------------------------------------------------ AOL_Unit2.py: CRUD

max_id(ids) == CHOOSE m \in ids : \A n \in ids : n <= m

\* A variant of next_available_id that counts the records instead of taking
\* the greatest id.
next_available_id_by_count(recs) == Len(recs) + 1

next_available_id(recs) ==
    IF recs = <<>> THEN 1
    ELSE max_id({recs[i].student_id : i \in 1..Len(recs)}) + 1

\* A variant of prompt_nonempty that returns the line as it was typed.
RECURSIVE prompt_nonempty_unstripped(_)
prompt_nonempty_unstripped(lines) ==
    IF lines = <<>> THEN None
    ELSE IF strip(Head(lines)) /= <<>> THEN Head(lines)
    ELSE prompt_nonempty_unstripped(Tail(lines))

\* prompt_nonempty on the lines typed: the first one that is not empty once
\* stripped, stripped; None while none is (the prompt is still asking).
RECURSIVE prompt_nonempty(_)
prompt_nonempty(lines) ==
    IF lines = <<>> THEN None
    ELSE IF strip(Head(lines)) /= <<>> THEN strip(Head(lines))
    ELSE prompt_nonempty(Tail(lines))

\* A variant of prompt_int_range that takes any integer.
RECURSIVE prompt_int_range_any_integer(_, _, _)
prompt_int_range_any_integer(lines, lo, hi) ==
    IF lines = <<>> THEN [ok |-> FALSE, val |-> 0]
    ELSE LET n == int(strip(Head(lines)))
         IN  IF n.ok THEN n
             ELSE prompt_int_range_any_integer(Tail(lines), lo, hi)

\* prompt_int_range on the lines typed: the first one that is an integer in
\* lo..hi; ok = FALSE while none is.
RECURSIVE prompt_int_range(_, _, _)
prompt_int_range(lines, lo, hi) ==
    IF lines = <<>> THEN [ok |-> FALSE, val |-> 0]
    ELSE LET n == int(strip(Head(lines)))
         IN  IF n.ok /\ lo <= n.val /\ n.val <= hi THEN n
             ELSE prompt_int_range(Tail(lines), lo, hi)

\* The field display_records compares under a choice of 2, 3 or 4.
filter_field(rec, choice) ==
    CASE choice = 2 -> rec.gender
      [] choice = 3 -> rec.lunch
      [] choice = 4 -> rec.prep_course

\* The list comprehension of display_records over the records from index i
\* on: those whose field, lowered, is the value.
RECURSIVE filter_from(_, _, _, _)
filter_from(recs, choice, value, i) ==
    IF i > Len(recs) THEN <<>>
    ELSE (IF lower(filter_field(recs[i], choice)) = value THEN <<recs[i]>>
          ELSE <<>>) \o filter_from(recs, choice, value, i + 1)

\* display_records: the records it shows for a display option and the line
\* typed at its prompt; all of them under option 1. (It prints the first
\* 200 of them; the lists of the model are shorter.)
display_records(recs, choice, line) ==
    IF choice = 1 THEN recs
    ELSE filter_from(recs, choice, lower(prompt_nonempty(<<line>>)), 1)

\* A variant of optional_text that takes the line typed even when blank.
optional_text_takes_blank(raw, current) == strip(raw)

\* update_record.optional_text: the line typed, stripped, or the current
\* value when nothing is left of it.
optional_text(raw, current) ==
    IF strip(raw) /= <<>> THEN strip(raw) ELSE current

\* A variant of optional_score that does not look at the range.
optional_score_any_integer(raw, current) ==
    IF strip(raw) = <<>> THEN current
    ELSE IF int(strip(raw)).ok THEN int(strip(raw)).val
    ELSE current

\* update_record.optional_score: the integer typed when it is in 0..100,
\* the current value for a blank line and for anything else.
optional_score(raw, current) ==
    IF strip(raw) = <<>> THEN current
    ELSE LET v == int(strip(raw))
         IN  IF v.ok /\ 0 <= v.val /\ v.val <= 100 THEN v.val ELSE current

\* update_record from "rec = records[idx]" on: form holds the line typed at
\* each of the eight prompts.
update_record(recs, idx, form) ==
    [recs EXCEPT ![idx] =
         [student_id |-> @.student_id,
          gender |-> optional_text(form.gender, @.gender),
          race_ethnicity |-> optional_text(form.race, @.race_ethnicity),
          parental_education |-> optional_text(form.parent_edu,
                                               @.parental_education),
          lunch |-> optional_text(form.lunch, @.lunch),
          prep_course |-> optional_text(form.prep, @.prep_course),
          math_score |-> optional_score(form.math, @.math_score),
          reading_score |-> optional_score(form.reading, @.reading_score),
          writing_score |-> optional_score(form.writing, @.writing_score)]]

\* ------------------------------------------- Final_Project.py: the store

COL_bid == <<"b", "i", "d">>
COL_title == <<"t", "i", "t", "l", "e">>
COL_author == <<"a", "u", "t", "h", "o", "r">>
COL_category == <<"c", "a", "t", "e", "g", "o", "r", "y">>
COL_status == <<"s", "t", "a", "t", "u", "s">>

ISSUED == <<"i", "s", "s", "u", "e", "d">>
AVAILABLE == <<"a", "v", "a", "i", "l", "a", "b", "l", "e">>

Book(bid, title, author, category, status) ==
    [bid |-> bid, title |-> title, author |-> author, category |-> category,
     status |-> status]

\* str.split(): the maximal runs of non-whitespace characters.
RECURSIVE split(_)
split(s) ==
    LET t == lstrip(s)
        stop == {i \in 1..Len(t) : t[i] \in WHITESPACE}
        n == IF stop = {} THEN Len(t)
             ELSE (CHOOSE i \in stop : \A j \in stop : i <= j) - 1
    IN  IF t = <<>> THEN <<>>
        ELSE <<SubSeq(t, 1, n)>> \o split(SubSeq(t, n + 1, Len(t)))

\* " ".join(words).
RECURSIVE join(_)
join(words) ==
    IF words = <<>> THEN <<>>
    ELSE IF Len(words) = 1 THEN Head(words)
    ELSE Head(words) \o <<" ">> \o join(Tail(words))

\* LibrarySystem._clean_text.
clean_text(s) == join(split(strip(s)))

\* LibrarySystem._normalize_status.
normalize_status(s) ==
    LET t == lower(clean_text(s))
    IN  IF t \in {ISSUED, <<"i", "s", "s", "u", "e">>} THEN ISSUED
        ELSE IF t \in {AVAILABLE, <<"a", "v", "a", "i", "l">>, <<"i", "n">>,
                       <<"i", "n", " ", "s", "t", "o", "c", "k">>}
        THEN AVAILABLE
        ELSE t

\* A variant of _is_valid_status that takes any status that is not empty.
is_valid_status_not_empty(s) == s /= <<>>

\* LibrarySystem._is_valid_status.
is_valid_status(s) == s \in {ISSUED, AVAILABLE}

\* LibrarySystem._next_id.
next_id(bks) ==
    IF bks = <<>> THEN 1
    ELSE max_id({bks[i].bid : i \in 1..Len(bks)}) + 1

\* LibrarySystem._find_by_id_linear: the place (from 1) of the Book it
\* returns, the first whose bid is target_id from place i on; 0 for None.
RECURSIVE find_by_id_from(_, _, _)
find_by_id_from(bks, target_id, i) ==
    IF i > Len(bks) THEN 0
    ELSE IF bks[i].bid = target_id THEN i
    ELSE find_by_id_from(bks, target_id, i + 1)

find_by_id_linear(bks, target_id) == find_by_id_from(bks, target_id, 1)

\* A variant of _find_all_by_title_linear that returns at the first match.
RECURSIVE find_first_by_title(_, _)
find_first_by_title(bks, title) ==
    IF bks = <<>> THEN <<>>
    ELSE IF lower(Head(bks).title) = lower(clean_text(title)) THEN <<Head(bks)>>
    ELSE find_first_by_title(Tail(bks), title)

\* The loop of _find_all_by_title_linear over the books from index i on,
\* t being the cleaned and lowered title and matches the list so far.
RECURSIVE find_all_by_title_from(_, _, _, _)
find_all_by_title_from(bks, t, i, matches) ==
    IF i > Len(bks) THEN matches
    ELSE find_all_by_title_from(bks, t, i + 1,
                                IF lower(bks[i].title) = t
                                THEN Append(matches, bks[i]) ELSE matches)

\* _find_all_by_title_linear(title)
find_all_by_title_linear(bks, title) ==
    find_all_by_title_from(bks, lower(clean_text(title)), 1, <<>>)

\* The body of LibrarySystem.load_from_csv's loop for one row.
decode_book(fieldnames, values) ==
    LET bid_str == strip(or_empty(row_get(fieldnames, values, COL_bid)))
        title == clean_text(or_empty(row_get(fieldnames, values, COL_title)))
        author == clean_text(or_empty(row_get(fieldnames, values, COL_author)))
        category == clean_text(or_empty(row_get(fieldnames, values, COL_category)))
        status == normalize_status(or_empty(row_get(fieldnames, values, COL_status)))
    IN  [ok |-> /\ isdigit(bid_str)
                /\ ~(title = <<>> \/ author = <<>> \/ category = <<>>
                     \/ ~is_valid_status(status)),
         book |-> Book(IF isdigit(bid_str) THEN int(bid_str).val ELSE 0,
                       title, author, category, status)]

\* A variant of load_books that stops at the first row it cannot decode.
RECURSIVE load_books_until_bad_row(_, _)
load_books_until_bad_row(fieldnames, rows) ==
    IF rows = <<>> THEN <<>>
    ELSE LET d == decode_book(fieldnames, Head(rows))
         IN  IF d.ok
             THEN <<d.book>> \o load_books_until_bad_row(fieldnames, Tail(rows))
             ELSE <<>>

\* LibrarySystem.load_from_csv's loop over the rows.
RECURSIVE load_books(_, _)
load_books(fieldnames, rows) ==
    IF rows = <<>> THEN <<>>
    ELSE LET d == decode_book(fieldnames, Head(rows))
         IN  IF d.ok THEN <<d.book>> \o load_books(fieldnames, Tail(rows))
             ELSE load_books(fieldnames, Tail(rows))

\* A variant of LibrarySystem.load_from_csv whose handlers wrap every
\* exception, FileNotFoundError too, in RuntimeError.
LibrarySystem_load_from_csv_one_error(file) ==
    LET required == {COL_bid, COL_title, COL_author, COL_category, COL_status}
        names == {file.fieldnames[i] : i \in 1..Len(file.fieldnames)}
    IN  IF ~file.exists THEN [loaded |-> <<>>, raised |-> "RuntimeError"]
        ELSE IF file.fieldnames = <<>> \/ ~(required \subseteq names)
             THEN [loaded |-> <<>>, raised |-> "RuntimeError"]
        ELSE IF file.err_after >= 0
             THEN [loaded |-> <<>>, raised |-> "RuntimeError"]
        ELSE [loaded |-> load_books(file.fieldnames, dict_rows(file.rows)),
              raised |-> "ok"]

\* LibrarySystem.load_from_csv(filepath): the list it builds and the
\* exception it raises ("ok" for none).  _books is replaced only with "ok".
LibrarySystem_load_from_csv(file) ==
    LET required == {COL_bid, COL_title, COL_author, COL_category, COL_status}
        names == {file.fieldnames[i] : i \in 1..Len(file.fieldnames)}
    IN  IF ~file.exists THEN [loaded |-> <<>>, raised |-> "FileNotFoundError"]
        ELSE IF file.fieldnames = <<>> \/ ~(required \subseteq names)
             THEN [loaded |-> <<>>, raised |-> "RuntimeError"]
        ELSE IF file.err_after >= 0
             THEN [loaded |-> <<>>, raised |-> "RuntimeError"]
        ELSE [loaded |-> load_books(file.fieldnames, dict_rows(file.rows)),
              raised |-> "ok"]

\* The resource LibrarySystem.save_to_csv(filepath) leaves behind.
LibrarySystem_save_to_csv(bks) ==
    File(<<COL_bid, COL_title, COL_author, COL_category, COL_status>>,
         [i \in 1..Len(bks) |->
             <<str(bks[i].bid), bks[i].title, bks[i].author, bks[i].category,
               bks[i].status>>])

\* insertion_sort_by_title's while loop.
RECURSIVE shift_title(_, _, _)
shift_title(bks, j, key_item) ==
    IF j >= 1 /\ str_gt(lower(bks[j].title), lower(key_item.title))
    THEN shift_title([bks EXCEPT ![j + 1] = bks[j]], j - 1, key_item)
    ELSE [bks EXCEPT ![j + 1] = key_item]

RECURSIVE insertion_sort_title_from(_, _)
insertion_sort_title_from(bks, i) ==
    IF i > Len(bks) THEN bks
    ELSE insertion_sort_title_from(shift_title(bks, i - 1, bks[i]), i + 1)

\* LibrarySystem.insertion_sort_by_title.
insertion_sort_by_title(bks) == insertion_sort_title_from(bks, 2)

\* LibrarySystem.sort_by_id_builtin: list.sort(key=bid), a stable sort.
sort_by_id_builtin(bks) == sorted(bks, "bid", FALSE)

\* A variant of add_book that does not look at the status.
add_book_any_status(bks, title, author, category, status) ==
    LET t == clean_text(title)
        a == clean_text(author)
        c == clean_text(category)
    IN  IF t = <<>> \/ a = <<>> \/ c = <<>>
        THEN [raised |-> "ValueError", books |-> bks]
        ELSE [raised |-> "ok",
              books |-> Append(bks, Book(next_id(bks), t, a, c,
                                         normalize_status(status)))]

\* LibrarySystem.add_book: the exception it raises ("ok" for none) and the
\* list after it.
add_book(bks, title, author, category, status) ==
    LET t == clean_text(title)
        a == clean_text(author)
        c == clean_text(category)
        st == normalize_status(status)
    IN  IF t = <<>> \/ a = <<>> \/ c = <<>>
        THEN [raised |-> "ValueError", books |-> bks]
        ELSE IF ~is_valid_status(st)
        THEN [raised |-> "ValueError", books |-> bks]
        ELSE [raised |-> "ok",
              books |-> Append(bks, Book(next_id(bks), t, a, c, st))]

\* LibrarySystem.delete_book: del of the first Book whose bid is bid, from
\* place i on; LookupError when the loop ends without one.
RECURSIVE delete_book_from(_, _, _)
delete_book_from(bks, bid, i) ==
    IF i > Len(bks) THEN [raised |-> "LookupError", books |-> bks]
    ELSE IF bks[i].bid = bid
    THEN [raised |-> "ok",
          books |-> SubSeq(bks, 1, i - 1) \o SubSeq(bks, i + 1, Len(bks))]
    ELSE delete_book_from(bks, bid, i + 1)

delete_book(bks, bid) == delete_book_from(bks, bid, 1)

\* A variant of update_book that sets each field as soon as it has checked
\* it.
update_book_field_by_field(bks, bid, title, author, category, status) ==
    LET at == find_by_id_linear(bks, bid)
        t == clean_text(title)
        a == clean_text(author)
        c == clean_text(category)
        st == normalize_status(status)
    IN  IF at = 0 THEN [raised |-> "LookupError", books |-> bks]
        ELSE IF t = <<>> \/ a = <<>> \/ c = <<>>
        THEN [raised |-> "ValueError", books |-> bks]
        ELSE IF ~is_valid_status(st)
        THEN [raised |-> "ValueError",
              books |-> [bks EXCEPT ![at] = Book(@.bid, t, a, c, @.status)]]
        ELSE [raised |-> "ok",
              books |-> [bks EXCEPT ![at] = Book(@.bid, t, a, c, st)]]

\* LibrarySystem.update_book: the exception it raises ("ok" for none) and
\* the list after it.
update_book(bks, bid, title, author, category, status) ==
    LET at == find_by_id_linear(bks, bid)
        t == clean_text(title)
        a == clean_text(author)
        c == clean_text(category)
        st == normalize_status(status)
    IN  IF at = 0 THEN [raised |-> "LookupError", books |-> bks]
        ELSE IF t = <<>> \/ a = <<>> \/ c = <<>>
        THEN [raised |-> "ValueError", books |-> bks]
        ELSE IF ~is_valid_status(st)
        THEN [raised |-> "ValueError", books |-> bks]
        ELSE [raised |-> "ok",
              books |-> [bks EXCEPT ![at] = Book(@.bid, t, a, c, st)]]

\* --------------------------------------------------- pokemon_assignment.py

\* Pokemon.__init__
Pokemon(name, level, max_hp, atk_power, def_power) ==
    [name |-> name, level |-> level, max_hp |-> max_hp, curr_hp |-> max_hp,
     atk_power |-> atk_power, def_power |-> def_power, owner |-> None,
     fainted |-> FALSE]

\* A variant of take_damage that faints the Pokemon below 0 only.
take_damage_faints_below_zero(self, damage) ==
    LET curr_hp == self.curr_hp - damage
    IN  [self EXCEPT !.curr_hp = curr_hp,
                     !.fainted = IF curr_hp < 0 THEN TRUE ELSE self.fainted]

\* Pokemon.take_damage
take_damage(self, damage) ==
    LET curr_hp == self.curr_hp - damage
    IN  [self EXCEPT !.curr_hp = curr_hp,
                     !.fainted = IF curr_hp <= 0 THEN TRUE ELSE self.fainted]

\* The damage Pokemon.attack computes.
calculate_dmg(self, other_pokemon) ==
    IF 1 >= self.atk_power - other_pokemon.def_power THEN 1
    ELSE self.atk_power - other_pokemon.def_power

\* Pokemon.attack: the objects after objects[self].attack(objects[other_pokemon]).
attack(objects, self, other_pokemon) ==
    [objects EXCEPT ![other_pokemon] =
         take_damage(objects[other_pokemon],
                     calculate_dmg(objects[self], objects[other_pokemon]))]

\* A variant of heal that leaves fainted as it is.
heal_keeps_fainted(self) == [self EXCEPT !.curr_hp = self.max_hp]

\* Pokemon.heal
heal(self) == [self EXCEPT !.curr_hp = self.max_hp, !.fainted = FALSE]

\* Where simple_battle is: at is "idle" outside it, "turn1" before
\* pokemon1's attack and "turn2" before pokemon2's.
Battle(at, pokemon1, pokemon2) ==
    [at |-> at, pokemon1 |-> pokemon1, pokemon2 |-> pokemon2]

NoBattle == Battle("idle", 0, 0)

\* ------------------------------------------------------------- the bounds

\* The most records a store holds, the greatest id an add may give, and the
\* most data rows of an input file.
MaxLen == 3

MaxId == 3

MaxRows == 3

\* All sequences over S of length at most n.
RECURSIVE SeqsUpTo(_, _)
SeqsUpTo(S, n) ==
    IF n = 0 THEN {<<>>}
    ELSE LET shorter == SeqsUpTo(S, n - 1)
         IN  shorter \cup {Append(q, x) : q \in {r \in shorter : Len(r) = n - 1},
                                               x \in S}

\* ----------------------------------------------- AOL_Unit2.py: the inputs

MALE == <<"m", "a", "l", "e">>
FEMALE == <<"f", "e", "m", "a", "l", "e">>
GROUP_A == <<"g", "r", "o", "u", "p", " ", "A">>
COLLEGE == <<"c", "o", "l", "l", "e", "g", "e">>
STANDARD == <<"s", "t", "a", "n", "d", "a", "r", "d">>
PREP_NONE == <<"n", "o", "n", "e">>
COMPLETED == <<"c", "o", "m", "p", "l", "e", "t", "e", "d">>

\* What a user types into add_record: for each prompt, the lines typed
\* until the prompt accepts one.
AddForm(gender, prep, m, r) ==
    [gender |-> gender, race |-> <<GROUP_A>>, parent_edu |-> <<<<>>, COLLEGE>>,
     lunch |-> <<STANDARD>>, prep |-> prep, math |-> m, reading |-> r,
     writing |-> <<<<"6", "0">>>>]

AddForms ==
    {AddForm(<<MALE>>, <<PREP_NONE>>, <<<<"7", "0">>>>, <<<<"1", "0", "0">>>>),
     AddForm(<<<<" ", " ">>, <<" ">> \o FEMALE \o <<" ">>>>, <<COMPLETED>>,
             <<<<"1", "5", "0">>, <<"8", "5">>>>, <<<<"8", "5">>>>),
     AddForm(<<MALE>>, <<COMPLETED>>,
             <<<<"a", "b", "c">>, <<"-", "1">>, <<"9", "0">>>>,
             <<<<"1", "0", "1">>, <<"5", "0">>>>)}

\* Data rows of an input file, in the order of the required columns:
\* two acceptable rows (the second padded with whitespace), and rows with
\* an empty text field, a score that is no integer, a score out of range.
InputRow(gender, prep, m) ==
    <<gender, GROUP_A, COLLEGE, STANDARD, prep, m, <<"8", "5">>, <<"6", "0">>>>

GoodRows ==
    {<<MALE, GROUP_A, COLLEGE, STANDARD, PREP_NONE, <<"7", "0">>,
       <<"1", "0", "0">>, <<"6", "0">>>>,
     InputRow(<<" ">> \o FEMALE \o <<" ">>, COMPLETED, <<" ", "8", "5", " ">>)}

BadRows ==
    {InputRow(<<" ">>, COMPLETED, <<"8", "5">>),
     InputRow(MALE, PREP_NONE, <<"7", "x">>),
     InputRow(MALE, PREP_NONE, <<"1", "0", "1">>)}

required_fieldnames ==
    <<COL_gender, COL_race, COL_parental, COL_lunch, COL_prep, COL_math,
      COL_reading, COL_writing>>

\* The rows with a first column put before them, holding cell in the rows
\* of odd number and no number in the others.
with_first_column(rows, cell) ==
    [i \in 1..Len(rows) |-> <<IF i % 2 = 1 THEN cell ELSE <<"x">>>> \o rows[i]]

\* The input files of a load: no file, a file with no header, one whose
\* header lacks a required column, and files of at most n data rows with
\* the required columns, alone or after an identifier column.
StudentFiles(n) ==
    LET bodies == SeqsUpTo(GoodRows \cup BadRows, n)
    IN  {NoFile, File(<<>>, <<>>)}
        \cup {File(Tail(required_fieldnames), <<Tail(r)>>) : r \in GoodRows}
        \cup {File(required_fieldnames, rows) : rows \in bodies}
        \cup {File(save_fieldnames, with_first_column(rows, <<"9">>)) :
                  rows \in bodies}

\* The few input files of a session that is not about loading.
StudentSampleFiles ==
    LET good == CHOOSE r \in GoodRows : r[1] = MALE
        padded == CHOOSE r \in GoodRows : r[1] /= MALE
        bad == CHOOSE r \in BadRows : r[6] = <<"7", "x">>
    IN  {NoFile,
         File(required_fieldnames, <<good, bad, padded>>),
         File(save_fieldnames, with_first_column(<<padded, good>>, <<"9">>)),
         File(required_fieldnames, <<bad>>)}

\* ------------------------------------------------------------- the state

\* prog          which of the two programs this run is
\* scores        the list of numbers given to a statistic
\* pokemon       the Pokemon objects of the run (pokemon_assignment.py)
\* battle        where simple_battle is, and on which two Pokemon
\* records       main's list of StudentRecord (AOL_Unit2.py)
\* books         LibrarySystem._books (Final_Project.py)
\* loaded_file   LibrarySystem._loaded_file
\* input         the resource at the path the program loads from by default
\* disk          the resource at the path the program saves to
\* result        what the last operation gave its caller: the operation, its
\*               outcome, the id it gave or was given, the index or place it
\*               found, the list it returned, the rows it warned about
\* max_assigned  history: the greatest id given so far to a record of the
\*               present store content (0: none)
\* scen          history: how far the run has followed the scenario of
\*               section 8 of the specification (-1: it left it)
VARIABLES prog, scores, pokemon, battle, records, books, loaded_file, input,
          disk, result, max_assigned, scen

vars ==
    <<prog, scores, pokemon, battle, records, books, loaded_file, input, disk,
      result, max_assigned, scen>>

Result(op, status, id, idx, list, skipped) ==
    [op |-> op, status |-> status, id |-> id, idx |-> idx, list |-> list,
     skipped |-> skipped]

Max(a, b) == IF a >= b THEN a ELSE b

Init ==
    /\ prog \in {"AOL_Unit2", "Final_Project"}
    /\ scores = <<>>
    /\ pokemon = <<>>
    /\ battle = NoBattle
    /\ records = <<>>
    /\ books = <<>>
    /\ loaded_file = "None"
    /\ input = NoFile
    /\ disk = NoFile
    /\ result = Result("start", "ok", 0, 0, <<>>, <<>>)
    /\ max_assigned = 0
    /\ scen = 0

\* ------------------------------------------- AOL_Unit2.py: the menu of main

\* Choice 1: load_from_csv(path); main keeps its records when the list that
\* comes back is empty, and replaces them otherwise.
LoadStudents(file, source) ==
    /\ prog = "AOL_Unit2"
    /\ \E got \in {load_from_csv(file)} :
           /\ records' = IF got.records = <<>> THEN records ELSE got.records
           /\ max_assigned' = IF got.records = <<>> THEN max_assigned
                              ELSE Len(got.records)
           /\ result' = Result(source, got.diag, 0, 0, got.records, got.warnings)
    /\ scen' = -1
    /\ UNCHANGED <<prog, scores, pokemon, battle, books, loaded_file, input, disk>>

\* Choice 3: search_record.
SearchStudent(target) ==
    /\ prog = "AOL_Unit2"
    /\ result' = IF records = <<>>
                 THEN Result("search", "no_data", target, 0, <<>>, <<>>)
                 ELSE LET idx == linear_search_by_id(records, target)
                      IN  Result("search",
                                 IF idx = -1 THEN "not_found" ELSE "found",
                                 target, idx, <<>>, <<>>)
    /\ scen' = IF scen = 4 /\ target = 1 THEN 5 ELSE -1
    /\ UNCHANGED <<prog, scores, pokemon, battle, records, books, loaded_file, input, disk, max_assigned>>

\* Choice 4: sort_records.
SortStudents(choice, desc) ==
    /\ prog = "AOL_Unit2"
    /\ records' = IF records = <<>> THEN records
                  ELSE sort_records(records, choice, desc)
    /\ result' = Result("sort", IF records = <<>> THEN "no_data" ELSE "ok",
                        choice, IF desc THEN 1 ELSE 0, <<>>, <<>>)
    /\ scen' = IF scen = 5 /\ choice = 2 /\ ~desc THEN 6 ELSE -1
    /\ UNCHANGED <<prog, scores, pokemon, battle, books, loaded_file, input, disk, max_assigned>>

\* Choice 6: add_record.  It returns once every prompt has accepted a line.
AddStudent(form) ==
    /\ prog = "AOL_Unit2"
    /\ Len(records) < MaxLen
    /\ next_available_id(records) <= MaxId
    /\ \E sid \in {next_available_id(records)},
          gender \in {prompt_nonempty(form.gender)},
          race \in {prompt_nonempty(form.race)},
          parent_edu \in {prompt_nonempty(form.parent_edu)},
          lunch \in {prompt_nonempty(form.lunch)},
          prep \in {prompt_nonempty(form.prep)},
          m \in {prompt_int_range(form.math, 0, 100)},
          r \in {prompt_int_range(form.reading, 0, 100)},
          w \in {prompt_int_range(form.writing, 0, 100)} :
           /\ None \notin {gender, race, parent_edu, lunch, prep}
           /\ m.ok /\ r.ok /\ w.ok
           /\ records' = Append(records,
                                StudentRecord(sid, gender, race, parent_edu,
                                              lunch, prep, m.val, r.val, w.val))
           /\ result' = Result("add", "ok", sid, 0, <<>>, <<>>)
           /\ max_assigned' = Max(max_assigned, sid)
           /\ scen' = IF scen = 0 /\ m.val = 70 THEN 1
                      ELSE IF scen = 1 /\ m.val = 85 THEN 2
                      ELSE IF scen = 3 /\ m.val = 90 THEN 4
                      ELSE -1
    /\ UNCHANGED <<prog, scores, pokemon, battle, books, loaded_file, input, disk>>

\* Choice 8: delete_record, confirm being the answer to "Confirm delete".
DeleteStudent(target, confirm) ==
    /\ prog = "AOL_Unit2"
    /\ \E idx \in {linear_search_by_id(records, target)} :
           IF records = <<>>
           THEN /\ records' = records
                /\ result' = Result("delete", "no_data", target, 0, <<>>, <<>>)
           ELSE IF idx = -1
           THEN /\ records' = records
                /\ result' = Result("delete", "not_found", target, idx, <<>>, <<>>)
           ELSE IF confirm
           THEN /\ records' = SubSeq(records, 1, idx - 1)
                              \o SubSeq(records, idx + 1, Len(records))
                /\ result' = Result("delete", "deleted", target, idx, <<>>, <<>>)
           ELSE /\ records' = records
                /\ result' = Result("delete", "cancelled", target, idx, <<>>, <<>>)
    /\ scen' = IF scen = 2 /\ target = 1 /\ confirm THEN 3 ELSE -1
    /\ UNCHANGED <<prog, scores, pokemon, battle, books, loaded_file, input, disk, max_assigned>>

\* Choice 9: save_to_csv, which main calls only when there are records.
SaveStudents ==
    /\ prog = "AOL_Unit2"
    /\ disk' = IF records = <<>> THEN disk ELSE save_to_csv(records)
    /\ result' = Result("save", IF records = <<>> THEN "no_data" ELSE "ok",
                        0, 0, <<>>, <<>>)
    /\ scen' = -1
    /\ UNCHANGED <<prog, scores, pokemon, battle, records, books, loaded_file, input, max_assigned>>

\* The ids a user may name: every id a record can hold, and one beyond.
Targets == 0..(MaxId + 1)

StudentCrud ==
    \/ \E form \in AddForms : AddStudent(form)
    \/ \E target \in Targets \ {0}, confirm \in BOOLEAN :
           DeleteStudent(target, confirm)
    \/ \E target \in Targets \ {0} : SearchStudent(target)
    \/ \E choice \in 1..4, desc \in BOOLEAN : SortStudents(choice, desc)

\* --------------------------------------------- Final_Project.py: inputs

\* The arguments of add_book: three acceptable ones (a title in capitals,
\* a title to clean, a status to normalize) and one per way to be rejected.
BookInput(title, author, category, status) ==
    [title |-> title, author |-> author, category |-> category,
     status |-> status]

GoodBookInputs ==
    {BookInput(<<"B">>, <<"N">>, <<"F">>, <<"I", "s", "s", "u", "e", "d">>),
     BookInput(<<" ", "a", " ", "\t", "c", " ">>, <<"N">>, <<"F">>,
               <<"i", "n", " ", " ", "s", "t", "o", "c", "k">>),
     BookInput(<<"a">>, <<"N">>, <<"F">>, <<"a", "v", "a", "i", "l">>)}

BadBookInputs ==
    {BookInput(<<" ">>, <<"N">>, <<"F">>, ISSUED),
     BookInput(<<"a">>, <<>>, <<"F">>, ISSUED),
     BookInput(<<"a">>, <<"N">>, <<"\t">>, AVAILABLE),
     BookInput(<<"a">>, <<"N">>, <<"F">>, <<"l", "o", "s", "t">>)}

library_fieldnames == <<COL_bid, COL_title, COL_author, COL_category, COL_status>>

\* Data rows of a library file: acceptable ones (two of them with the same
\* bid, one to clean and normalize) and rows whose bid is no digit string,
\* whose title is empty, whose status is unknown.
GoodBookRows ==
    {<<<<"3">>, <<"B">>, <<"N">>, <<"F">>, ISSUED>>,
     <<<<"1">>, <<"a">>, <<"N">>, <<"F">>, AVAILABLE>>,
     <<<<" ", "1">>, <<"a", " ", " ", "c">>, <<"N">>, <<"F">>,
       <<"I", "s", "s", "u", "e">>>>}

BadBookRows ==
    {<<<<"x">>, <<"a">>, <<"N">>, <<"F">>, ISSUED>>,
     <<<<"2">>, <<" ">>, <<"N">>, <<"F">>, ISSUED>>,
     <<<<"2">>, <<"a">>, <<"N">>, <<"F">>, <<"l", "o", "s", "t">>>>}

\* The input files of a library load: no file, a file with no header, one
\* whose header lacks bid, and files of at most n data rows.
LibraryFiles(n) ==
    {NoFile, File(<<>>, <<>>)}
    \cup {File(Tail(library_fieldnames), <<Tail(r)>>) : r \in GoodBookRows}
    \cup {File(library_fieldnames, rows) :
              rows \in SeqsUpTo(GoodBookRows \cup BadBookRows, n)}

\* The few input files of a session that is not about loading.
LibrarySampleFiles ==
    LET b3 == CHOOSE r \in GoodBookRows : r[1] = <<"3">>
        b1 == CHOOSE r \in GoodBookRows : r[1] = <<"1">>
        c1 == CHOOSE r \in GoodBookRows : r[1] = <<" ", "1">>
        bad == CHOOSE r \in BadBookRows : r[1] = <<"x">>
    IN  {NoFile,
         File(library_fieldnames, <<b3, bad, b1>>),
         File(library_fieldnames, <<b1, c1>>)}

\* ------------------------------------ Final_Project.py: LibrarySystem

\* load_from_csv(filepath).
LoadBooks(file, source) ==
    /\ prog = "Final_Project"
    /\ \E got \in {LibrarySystem_load_from_csv(file)} :
           /\ books' = IF got.raised = "ok" THEN got.loaded ELSE books
           /\ loaded_file' = IF got.raised = "ok" THEN source ELSE loaded_file
           /\ max_assigned' =
                  IF got.raised /= "ok" THEN max_assigned
                  ELSE IF got.loaded = <<>> THEN 0
                  ELSE max_id({got.loaded[i].bid : i \in 1..Len(got.loaded)})
           /\ result' = Result(source, got.raised, 0, 0, got.loaded, <<>>)
    /\ UNCHANGED <<prog, scores, pokemon, battle, records, input, disk, scen>>

\* save_to_csv(filepath).
SaveBooks ==
    /\ prog = "Final_Project"
    /\ disk' = LibrarySystem_save_to_csv(books)
    /\ loaded_file' = "save"
    /\ result' = Result("save", "ok", 0, 0, <<>>, <<>>)
    /\ UNCHANGED <<prog, scores, pokemon, battle, records, books, input, max_assigned, scen>>

\* _find_by_id_linear(target_id).
FindBook(target_id) ==
    /\ prog = "Final_Project"
    /\ \E at \in {find_by_id_linear(books, target_id)} :
           result' = Result("search", IF at = 0 THEN "None" ELSE "found",
                            target_id, at, <<>>, <<>>)
    /\ UNCHANGED <<prog, scores, pokemon, battle, records, books, loaded_file, input, disk, max_assigned, scen>>

\* insertion_sort_by_title() and sort_by_id_builtin().
SortBooks(by_title) ==
    /\ prog = "Final_Project"
    /\ books' = IF by_title THEN insertion_sort_by_title(books)
                ELSE sort_by_id_builtin(books)
    /\ result' = Result("sort", "ok", IF by_title THEN 1 ELSE 2, 0, <<>>, <<>>)
    /\ UNCHANGED <<prog, scores, pokemon, battle, records, loaded_file, input, disk, max_assigned, scen>>

\* add_book(title, author, category, status).
AddBook(args) ==
    /\ prog = "Final_Project"
    /\ Len(books) < MaxLen
    /\ next_id(books) <= MaxId
    /\ \E got \in {add_book(books, args.title, args.author, args.category,
                            args.status)} :
           /\ books' = got.books
           /\ result' = Result("add", got.raised,
                               IF got.raised = "ok"
                               THEN got.books[Len(got.books)].bid ELSE 0,
                               0, <<>>, <<>>)
           /\ max_assigned' = IF got.raised = "ok"
                              THEN Max(max_assigned, got.books[Len(got.books)].bid)
                              ELSE max_assigned
    /\ UNCHANGED <<prog, scores, pokemon, battle, records, loaded_file, input, disk, scen>>

\* delete_book(bid).
DeleteBook(bid) ==
    /\ prog = "Final_Project"
    /\ \E got \in {delete_book(books, bid)} :
           /\ books' = got.books
           /\ result' = Result("delete", got.raised, bid, 0, <<>>, <<>>)
    /\ UNCHANGED <<prog, scores, pokemon, battle, records, loaded_file, input, disk, max_assigned, scen>>

LibraryCrud ==
    \/ \E args \in GoodBookInputs \cup BadBookInputs : AddBook(args)
    \/ \E bid \in Targets : DeleteBook(bid)
    \/ \E target_id \in Targets : FindBook(target_id)
    \/ \E by_title \in BOOLEAN : SortBooks(by_title)

\* ------------------------------------------------------ specifications

\* A session of either program: loads of a few input files, searches,
\* sorts, adds and deletes.
Next ==
    \/ StudentCrud
    \/ \E file \in StudentSampleFiles : LoadStudents(file, "load")
    \/ LibraryCrud
    \/ \E file \in LibrarySampleFiles : LoadBooks(file, "load")

Spec == Init /\ [][Next]_vars

\* A session that starts with an empty store and never loads.
NextCrud == StudentCrud \/ LibraryCrud

SpecCrud == Init /\ [][NextCrud]_vars

\* A session of loads and saves.  The resource at the default path is any
\* input file of at most MaxRows rows; the program loads it, saves, loads
\* what it saved, and sorts in between.
InitIO ==
    /\ prog \in {"AOL_Unit2", "Final_Project"}
    /\ scores = <<>>
    /\ pokemon = <<>>
    /\ battle = NoBattle
    /\ records = <<>>
    /\ books = <<>>
    /\ loaded_file = "None"
    /\ input \in IF prog = "AOL_Unit2" THEN StudentFiles(MaxRows)
                 ELSE LibraryFiles(MaxRows)
    /\ disk = NoFile
    /\ result = Result("start", "ok", 0, 0, <<>>, <<>>)
    /\ max_assigned = 0
    /\ scen = 0

\* A file of another path: the required columns and one malformed row.
OnlyBadRow ==
    File(required_fieldnames, <<CHOOSE r \in BadRows : r[6] = <<"7", "x">>>>)

NextIO ==
    \/ LoadStudents(input, "load")
    \/ LoadStudents(OnlyBadRow, "load")
    \/ SaveStudents
    \/ LoadStudents(disk, "reload")
    \/ SortStudents(2, TRUE)
    \/ LoadBooks(input, "load")
    \/ SaveBooks
    \/ LoadBooks(disk, "reload")

SpecIO == InitIO /\ [][NextIO]_vars

\* ----------------------------------------------------------- the updates

\* What a user types into update_record: one line for each prompt.
UpdateForm(gender, prep, m, r) ==
    [gender |-> gender, race |-> <<>>, parent_edu |-> <<" ">>, lunch |-> <<>>,
     prep |-> prep, math |-> m, reading |-> r, writing |-> <<>>]

\* Nothing but blank lines; a gender and a reading score with a math score
\* that is no integer; the same with a math score out of range.
UpdateForms ==
    {UpdateForm(<<>>, <<" ", "\t">>, <<>>, <<" ">>),
     UpdateForm(<<" ", "o", "t", "h", "e", "r", " ">>, <<>>,
                <<"a", "b", "c">>, <<" ", "5", "5">>),
     UpdateForm(<<"o", "t", "h", "e", "r">>, <<" ">>,
                <<"1", "0", "1">>, <<"5", "5">>)}

\* The ids a user names in an update: one the first add or load gives, and
\* one no record holds.
UpdateTargets == {1, MaxId + 1}

\* The scores of the form that optional_score reports as invalid.
invalid_scores(rec, form) ==
    SelectSeq(<<"math", "reading", "writing">>,
              LAMBDA f : /\ strip(form[f]) /= <<>>
                         /\ ~(int(strip(form[f])).ok
                              /\ int(strip(form[f])).val \in 0..100))

\* Choice 7: update_record.
UpdateStudent(target, form) ==
    /\ prog = "AOL_Unit2"
    /\ \E idx \in {linear_search_by_id(records, target)} :
           IF records = <<>>
           THEN /\ records' = records
                /\ result' = Result("update", "no_data", target, 0, <<>>, <<>>)
           ELSE IF idx = -1
           THEN /\ records' = records
                /\ result' = Result("update", "not_found", target, idx, <<>>, <<>>)
           ELSE /\ records' = update_record(records, idx, form)
                /\ result' = Result("update", "updated", target, idx, <<>>,
                                    invalid_scores(records[idx], form))
    /\ scen' = -1
    /\ UNCHANGED <<prog, scores, pokemon, battle, books, loaded_file, input, disk, max_assigned>>

\* The arguments of update_book: acceptable ones, a status that is not
\* known, a title that is blank.
UpdateBookInputs ==
    {BookInput(<<" ", "C", " ">>, <<"M">>, <<"S">>,
               <<"A", "v", "a", "i", "l", "a", "b", "l", "e">>),
     BookInput(<<"C">>, <<"M">>, <<"S">>, <<"l", "o", "s", "t">>),
     BookInput(<<" ">>, <<"M">>, <<"S">>, ISSUED)}

\* update_book(bid, title, author, category, status).
UpdateBook(bid, args) ==
    /\ prog = "Final_Project"
    /\ \E got \in {update_book(books, bid, args.title, args.author,
                               args.category, args.status)} :
           /\ books' = got.books
           /\ result' = Result("update", got.raised, bid,
                               find_by_id_linear(books, bid), <<>>, <<>>)
    /\ UNCHANGED <<prog, scores, pokemon, battle, records, loaded_file, input, disk, max_assigned, scen>>

\* A library file whose only row has the bid 0.
ZeroBidFile ==
    File(library_fieldnames, <<<<<<"0">>, <<"a">>, <<"N">>, <<"F">>, ISSUED>>>>)

\* A session of either program with updates among its operations: loads of
\* the sample files, adds of two of the forms and of one book, deletes that
\* are confirmed, one sort.
\* A file whose second row has a math score above 100.
OutOfRangeFile ==
    File(required_fieldnames,
         <<CHOOSE r \in GoodRows : r[1] = MALE,
           CHOOSE r \in BadRows : r[6] = <<"1", "0", "1">>>>)

\* Files whose read raises after the first data row.
ReadErrorFile ==
    [File(required_fieldnames,
          <<CHOOSE r \in GoodRows : r[1] = MALE,
            CHOOSE r \in GoodRows : r[1] /= MALE>>) EXCEPT !.err_after = 1]

LibraryReadErrorFile ==
    [File(library_fieldnames,
          <<CHOOSE r \in GoodBookRows : r[1] = <<"3">>,
            CHOOSE r \in GoodBookRows : r[1] = <<"1">>>>) EXCEPT !.err_after = 1]

NextEdit ==
    \/ \E file \in StudentSampleFiles \cup {OutOfRangeFile, ReadErrorFile} :
           LoadStudents(file, "load")
    \/ \E form \in {f \in AddForms : Len(f.math) <= 2} : AddStudent(form)
    \/ \E target \in UpdateTargets, form \in UpdateForms :
           UpdateStudent(target, form)
    \/ \E target \in Targets \ {0} : DeleteStudent(target, TRUE)
    \/ SortStudents(1, TRUE)
    \/ \E file \in LibrarySampleFiles \cup {ZeroBidFile, LibraryReadErrorFile} :
           LoadBooks(file, "load")
    \/ \E args \in {a \in GoodBookInputs : a.title = <<"B">>} \cup BadBookInputs :
           AddBook(args)
    \/ \E bid \in UpdateTargets, args \in UpdateBookInputs : UpdateBook(bid, args)
    \/ \E bid \in Targets : DeleteBook(bid)
    \/ SortBooks(TRUE)

SpecEdit == Init /\ [][NextEdit]_vars

\* ------------------------------------------------- the searches by text

\* The titles typed at the search prompt: in another case and padded, with
\* two spaces inside, of no book.
TitleQueries ==
    {<<" ", "b", " ">>, <<"A">>, <<"A", " ", " ", "C">>, <<"c">>}

\* The lines typed at the prompt of a display filter.
FilterLines == {<<" ", "M", "a", "l", "e", " ">>, FEMALE, <<"N", "o", "n", "e">>,
                <<"S", "t", "a", "n", "d", "a", "r", "d">>}

\* Choice 3, search by title: _find_all_by_title_linear(t).
FindByTitle(title) ==
    /\ prog = "Final_Project"
    /\ \E got \in {find_all_by_title_linear(books, title)} :
           result' = IF books = <<>>
                     THEN Result("find_title", "no_data", 0, 0, <<>>, <<>>)
                     ELSE Result("find_title",
                                 IF got = <<>> THEN "None" ELSE "found",
                                 0, 0, got, <<>>)
    /\ UNCHANGED <<prog, scores, pokemon, battle, records, books, loaded_file, input, disk,
                   max_assigned, scen>>

\* Choice 2: display_records with a display option and the line typed.
DisplayRecords(choice, line) ==
    /\ prog = "AOL_Unit2"
    /\ \E got \in {display_records(records, choice, line)} :
           result' = IF records = <<>>
                     THEN Result("display", "no_data", choice, 0, <<>>, <<>>)
                     ELSE Result("display", "ok", choice, 0, got, <<>>)
    /\ UNCHANGED <<prog, scores, pokemon, battle, records, books, loaded_file, input, disk,
                   max_assigned, scen>>

NextSearch ==
    \/ \E file \in StudentSampleFiles : LoadStudents(file, "load")
    \/ \E form \in {f \in AddForms : Len(f.math) <= 2} : AddStudent(form)
    \/ \E choice \in 1..4, line \in FilterLines : DisplayRecords(choice, line)
    \/ \E file \in LibrarySampleFiles : LoadBooks(file, "load")
    \/ \E args \in GoodBookInputs : AddBook(args)
    \/ \E title \in TitleQueries : FindByTitle(title)

SpecSearch == Init /\ [][NextSearch]_vars

\* ------------------------------------------------------------ the battles

\* The values a Pokemon is made with: an hp of 0 and one below it, an
\* attack below, at and above the defense.
HpSamples == {-1, 0, 2, 5}

AtkSamples == {1, 4}

DefSamples == {0, 4, 6}

\* No attack or battle starts on a Pokemon whose hp is MaxBelowZero below 0
\* or lower.
MaxBelowZero == 4

\* A run of pokemon_assignment: two Pokemon, made by the constructor.
InitBattle ==
    /\ prog = "pokemon_assignment"
    /\ scores = <<>>
    /\ \E hp1 \in HpSamples, hp2 \in HpSamples, atk1 \in AtkSamples,
          def2 \in DefSamples :
           pokemon = <<Pokemon("Pikachu", 10, hp1, atk1, 0),
                       Pokemon("Bulbasaur", 10, hp2, 2, def2)>>
    /\ battle = NoBattle
    /\ records = <<>>
    /\ books = <<>>
    /\ loaded_file = "None"
    /\ input = NoFile
    /\ disk = NoFile
    /\ result = Result("start", "ok", 0, 0, <<>>, <<>>)
    /\ max_assigned = 0
    /\ scen = 0

\* pokemon[self].attack(pokemon[other_pokemon]), outside a battle.
Attack(self, other_pokemon) ==
    /\ prog = "pokemon_assignment"
    /\ battle.at = "idle"
    /\ pokemon[other_pokemon].curr_hp > 0 - MaxBelowZero
    /\ pokemon' = attack(pokemon, self, other_pokemon)
    /\ result' = Result("attack", "ok", self, other_pokemon, <<>>, <<>>)
    /\ UNCHANGED <<prog, scores, battle, records, books, loaded_file, input, disk,
                   max_assigned, scen>>

\* pokemon[self].heal(), outside a battle.
Heal(self) ==
    /\ prog = "pokemon_assignment"
    /\ battle.at = "idle"
    /\ pokemon' = [pokemon EXCEPT ![self] = heal(pokemon[self])]
    /\ result' = Result("heal", "ok", self, 0, <<>>, <<>>)
    /\ UNCHANGED <<prog, scores, battle, records, books, loaded_file, input, disk,
                   max_assigned, scen>>

\* simple_battle(pokemon[pokemon1], pokemon[pokemon2]) is called.
StartBattle(pokemon1, pokemon2) ==
    /\ prog = "pokemon_assignment"
    /\ battle.at = "idle"
    /\ pokemon[pokemon1].curr_hp > 0 - MaxBelowZero
    /\ pokemon[pokemon2].curr_hp > 0 - MaxBelowZero
    /\ battle' = Battle("turn1", pokemon1, pokemon2)
    /\ result' = Result("battle", "started", pokemon1, pokemon2, <<>>, <<>>)
    /\ UNCHANGED <<prog, scores, pokemon, records, books, loaded_file, input, disk,
                   max_assigned, scen>>

\* The first half of simple_battle's loop: pokemon1 attacks, and the loop
\* breaks if pokemon2 is fainted.
BattleTurn1 ==
    /\ prog = "pokemon_assignment"
    /\ battle.at = "turn1"
    /\ \E got \in {attack(pokemon, battle.pokemon1, battle.pokemon2)} :
           /\ pokemon' = got
           /\ battle' = IF got[battle.pokemon2].fainted THEN NoBattle
                        ELSE [battle EXCEPT !.at = "turn2"]
           /\ result' = IF got[battle.pokemon2].fainted
                        THEN Result("battle", "over", battle.pokemon1,
                                    battle.pokemon2, <<>>, <<>>)
                        ELSE Result("battle", "turn1", battle.pokemon1,
                                    battle.pokemon2, <<>>, <<>>)
    /\ UNCHANGED <<prog, scores, records, books, loaded_file, input, disk,
                   max_assigned, scen>>

\* The second half: pokemon2 attacks, and the loop breaks if pokemon1 is
\* fainted.
BattleTurn2 ==
    /\ prog = "pokemon_assignment"
    /\ battle.at = "turn2"
    /\ \E got \in {attack(pokemon, battle.pokemon2, battle.pokemon1)} :
           /\ pokemon' = got
           /\ battle' = IF got[battle.pokemon1].fainted THEN NoBattle
                        ELSE [battle EXCEPT !.at = "turn1"]
           /\ result' = IF got[battle.pokemon1].fainted
                        THEN Result("battle", "over", battle.pokemon2,
                                    battle.pokemon1, <<>>, <<>>)
                        ELSE Result("battle", "turn2", battle.pokemon2,
                                    battle.pokemon1, <<>>, <<>>)
    /\ UNCHANGED <<prog, scores, records, books, loaded_file, input, disk,
                   max_assigned, scen>>

NextBattle ==
    \/ \E self \in 1..2, other_pokemon \in 1..2 : Attack(self, other_pokemon)
    \/ \E self \in 1..2 : Heal(self)
    \/ \E pokemon1 \in 1..2, pokemon2 \in 1..2 : StartBattle(pokemon1, pokemon2)
    \/ BattleTurn1
    \/ BattleTurn2

\* simple_battle is sequential code: once called, its loop keeps running.
SpecBattle ==
    InitBattle /\ [][NextBattle]_vars /\ WF_vars(BattleTurn1) /\ WF_vars(BattleTurn2)

\* -------------------------------------------------------- the statistics

\* The numbers a list given to a statistic is made of.
ScoreSamples == {60, 70, 90}

\* A run about the statistics: the list of numbers is any list of at most
\* MaxLen samples, and the program is AOL_Unit2 or Unit 3 Lesson 3 A.
InitStats ==
    /\ prog \in {"AOL_Unit2", "Unit3_Lesson3A"}
    /\ scores \in SeqsUpTo(ScoreSamples, MaxLen)
    /\ pokemon = <<>>
    /\ battle = NoBattle
    /\ records = <<>>
    /\ books = <<>>
    /\ loaded_file = "None"
    /\ input = NoFile
    /\ disk = NoFile
    /\ result = Result("start", "ok", 0, 0, <<>>, <<>>)
    /\ max_assigned = 0
    /\ scen = 0

\* mean(scores)
Mean ==
    /\ prog = "AOL_Unit2"
    /\ result' = Result("mean", "ok", 0, 0, <<mean(scores)>>, <<>>)
    /\ UNCHANGED <<prog, scores, pokemon, battle, records, books, loaded_file, input, disk,
                   max_assigned, scen>>

\* stdev(scores)
Stdev ==
    /\ prog = "AOL_Unit2"
    /\ result' = Result("stdev", "ok", 0, 0, <<stdev(scores)>>, <<>>)
    /\ UNCHANGED <<prog, scores, pokemon, battle, records, books, loaded_file, input, disk,
                   max_assigned, scen>>

\* Choice 8: summary_statistics(records).
SummaryStatistics ==
    /\ prog = "AOL_Unit2"
    /\ \E got \in {summary_statistics(records)} :
           result' = Result("summary", got.status, 0, 0, got.lines, <<>>)
    /\ UNCHANGED <<prog, scores, pokemon, battle, records, books, loaded_file, input, disk,
                   max_assigned, scen>>

\* s_min(scores)
SMin ==
    /\ prog = "Unit3_Lesson3A"
    /\ result' = Result("s_min", "ok", 0, 0, <<Float(s_min(scores), 1)>>, <<>>)
    /\ UNCHANGED <<prog, scores, pokemon, battle, records, books, loaded_file, input, disk,
                   max_assigned, scen>>

\* s_max(scores)
SMax ==
    /\ prog = "Unit3_Lesson3A"
    /\ result' = Result("s_max", "ok", 0, 0, <<Float(s_max(scores), 1)>>, <<>>)
    /\ UNCHANGED <<prog, scores, pokemon, battle, records, books, loaded_file, input, disk,
                   max_assigned, scen>>

\* s_average(scores)
SAverage ==
    /\ prog = "Unit3_Lesson3A"
    /\ result' = Result("s_average", "ok", 0, 0, <<s_average(scores)>>, <<>>)
    /\ UNCHANGED <<prog, scores, pokemon, battle, records, books, loaded_file, input, disk,
                   max_assigned, scen>>

\* analyze(scores): the statistics it prints, and its Pass/Fail lines.
Analyze ==
    /\ prog = "Unit3_Lesson3A"
    /\ \E got \in {analyze(scores, PASS_MARK)} :
           result' = Result("analyze", got.status, 0, 0, got.stats, got.verdicts)
    /\ UNCHANGED <<prog, scores, pokemon, battle, records, books, loaded_file, input, disk,
                   max_assigned, scen>>

NextStats ==
    \/ \E file \in StudentSampleFiles : LoadStudents(file, "load")
    \/ Mean
    \/ Stdev
    \/ SummaryStatistics
    \/ SMin
    \/ SMax
    \/ SAverage
    \/ Analyze

SpecStats == InitStats /\ [][NextStats]_vars

\* ----------------------------------------------------------- properties

student_ids == [i \in 1..Len(records) |-> records[i].student_id]

book_ids == [i \in 1..Len(books) |-> books[i].bid]

Distinct(ids) == \A i, j \in 1..Len(ids) : i /= j => ids[i] /= ids[j]

\* C1: from an empty store, after any adds and deletes (searches and sorts
\* between them), the ids of the records in the store are pairwise distinct.
C1_IdsDistinct == Distinct(student_ids) /\ Distinct(book_ids)

\* C1's case: an add after the delete of the record of id 1, the store
\* holding two records again.
C1_Witness ==
    /\ prog = "AOL_Unit2"
    /\ result.op = "add"
    /\ Len(records) >= 2
    /\ records[1].student_id = 2

\* C2: the id an add gives exceeds every id given before in the life of the
\* store, the ids of deleted records included.
C2_NewIdExceedsAllEver ==
    [][(result'.op = "add" /\ result'.status = "ok"
        /\ (Len(records') > Len(records) \/ Len(books') > Len(books)))
       => result'.id > max_assigned]_vars

\* C3: the search by id finds a record exactly when some record holds the
\* id, and then it is the first record of that id in store order.
C3_FindById ==
    \A x \in Targets :
        /\ LET idx == linear_search_by_id(records, x)
           IN  IF \E i \in 1..Len(records) : records[i].student_id = x
               THEN /\ idx \in 1..Len(records)
                    /\ records[idx].student_id = x
                    /\ \A k \in 1..(idx - 1) : records[k].student_id /= x
               ELSE idx = -1
        /\ LET at == find_by_id_linear(books, x)
           IN  IF \E i \in 1..Len(books) : books[i].bid = x
               THEN /\ at \in 1..Len(books)
                    /\ books[at].bid = x
                    /\ \A k \in 1..(at - 1) : books[k].bid /= x
               ELSE at = 0

\* C3's case: a search that found the first of two books of the same bid.
C3_Witness ==
    /\ result.op = "search"
    /\ result.status = "found"
    /\ prog = "Final_Project"
    /\ \E j \in (result.idx + 1)..Len(books) : books[j].bid = result.id

SortKeys == {"average", "math", "reading", "writing"}

keys_of(recs, key) == [i \in 1..Len(recs) |-> key_fn(key, recs[i])]

\* C4: after the manual insertion sort, with any key the store's records
\* have, no record's key is greater than the next one's when ascending, and
\* none is less than the next one's when descending; the insertion sort by
\* title leaves no title greater than the next one's, case ignored.
C4_InsertionSortOrdered ==
    /\ \A key \in SortKeys, reverse \in BOOLEAN :
           LET ks == keys_of(insertion_sort(records, key, reverse), key)
           IN  \A i \in 1..(Len(ks) - 1) :
                   IF reverse THEN ~float_lt(ks[i], ks[i + 1])
                   ELSE ~float_gt(ks[i], ks[i + 1])
    /\ LET after == insertion_sort_by_title(books)
       IN  \A i \in 1..(Len(after) - 1) :
               ~str_gt(lower(after[i].title), lower(after[i + 1].title))

\* C4's case: a descending insertion sort by math score has run on three
\* records whose math scores differ.
C4_Witness ==
    /\ prog = "AOL_Unit2"
    /\ result.op = "sort"
    /\ result.id = 2
    /\ result.idx = 1
    /\ Len(records) >= 3
    /\ records[1].math_score > records[Len(records)].math_score

\* C5: on the same records, with the same key and direction, the manual
\* insertion sort and the built-in sort give the same sequence of keys.
C5_SameKeySequences ==
    \A key \in SortKeys, reverse \in BOOLEAN :
        LET manual == keys_of(insertion_sort(records, key, reverse), key)
            builtin == keys_of(sorted(records, key, reverse), key)
        IN  /\ Len(manual) = Len(builtin)
            /\ \A i \in 1..Len(manual) : float_eq(manual[i], builtin[i])

\* C5's case: three records, two of them of the same reading score, in an
\* order that neither direction of a sort by reading score leaves alone.
C5_Witness ==
    /\ prog = "AOL_Unit2"
    /\ Len(records) >= 3
    /\ \E i, j \in 1..Len(records) :
           i /= j /\ records[i].reading_score = records[j].reading_score
    /\ sorted(records, "reading", FALSE) /= records
    /\ sorted(records, "reading", TRUE) /= records
    /\ insertion_sort(records, "reading", FALSE) /= records

without_id(rec) == [rec EXCEPT !.student_id = 0]

without_bid(b) == [b EXCEPT !.bid = 0]

\* C6: a load of what a save wrote gives as many records as were saved, in
\* the same order, each equal to the saved one in every field but the id;
\* the ids are 1..n by row order (AOL_Unit2) or the saved ones
\* (Final_Project).
C6_SaveLoadRoundTrip ==
    [][/\ (prog = "AOL_Unit2" /\ result'.op = "reload" /\ records /= <<>>
           /\ disk = save_to_csv(records) /\ LoadStudents(disk, "reload"))
          => /\ result'.status = "ok"
             /\ Len(records') = Len(records)
             /\ \A i \in 1..Len(records) :
                    /\ without_id(records'[i]) = without_id(records[i])
                    /\ records'[i].student_id = i
       /\ (prog = "Final_Project" /\ result'.op = "reload"
           /\ disk = LibrarySystem_save_to_csv(books) /\ LoadBooks(disk, "reload"))
          => /\ result'.status = "ok"
             /\ Len(books') = Len(books)
             /\ \A i \in 1..Len(books) :
                    /\ without_bid(books'[i]) = without_bid(books[i])
                    /\ books'[i].bid = books[i].bid]_vars

\* C6's case: a reload of a file that holds two records or more, saved
\* with the record of id 2 in its first row.
C6_Witness ==
    /\ prog = "AOL_Unit2"
    /\ result.op = "reload"
    /\ result.status = "ok"
    /\ Len(records) >= 2
    /\ disk = save_to_csv([i \in 1..Len(records) |->
                              [records[i] EXCEPT
                                   !.student_id = Len(records) + 1 - i]])

\* The record add_record appends holds no text that is empty or padded and
\* no score outside 0..100.
ValidRecord(rec) ==
    /\ \A text \in {rec.gender, rec.race_ethnicity, rec.parental_education,
                    rec.lunch, rec.prep_course} :
           text /= <<>> /\ strip(text) = text
    /\ \A score \in {rec.math_score, rec.reading_score, rec.writing_score} :
           0 <= score /\ score <= 100

math_scores == [i \in 1..Len(records) |-> records[i].math_score]

\* C8: from an empty store, add(score 70), add(score 85), delete(1),
\* add(score 90) give the three records the ids 1, 2 and 3; after them the
\* search for id 1 finds nothing, the ascending sort by score gives the
\* order 85, 90, and the mean of the scores is 87.5.
C8_Scenario ==
    /\ scen = 1 => result.id = 1 /\ student_ids = <<1>>
    /\ scen = 2 => result.id = 2 /\ student_ids = <<1, 2>>
    /\ scen = 3 => result.status = "deleted" /\ student_ids = <<2>>
    /\ scen = 4 => result.id = 3 /\ student_ids = <<2, 3>>
    /\ scen \in {4, 5, 6}
       => /\ linear_search_by_id(records, 1) = -1
          /\ keys_of(insertion_sort(records, "math", FALSE), "math")
                 = <<Float(85, 1), Float(90, 1)>>
          /\ float_eq(mean(math_scores), Float(175, 2))
    /\ scen = 5 => result.op = "search" /\ result.status = "not_found"
    /\ scen = 6 => result.op = "sort" /\ math_scores = <<85, 90>>

\* C8's case: the whole scenario has run, the sort being its last step.
C8_Witness ==
    /\ scen = 6
    /\ result.op = "sort"
    /\ Len(records) = 2

\* The data rows of a student file without the cells of its identifier
\* column, if it has one.
body_of(file) ==
    [i \in 1..Len(file.rows) |->
         IF file.fieldnames = save_fieldnames THEN Tail(file.rows[i])
         ELSE file.rows[i]]

has_required_columns(file) ==
    file.exists /\ file.fieldnames \in {required_fieldnames, save_fieldnames}

good_rows(rows) == SelectSeq(rows, LAMBDA r : r \in GoodRows)

good_book_rows(rows) == SelectSeq(rows, LAMBDA r : r \in GoodBookRows)

\* The record holds the cells of the row, trimmed.
same_cells(rec, row) == Tail(to_row(rec)) = [j \in 1..Len(row) |-> strip(row[j])]

\* The book holds the cells of the row: the bid's number, the texts cleaned.
same_book(b, row) ==
    /\ str(b.bid) = strip(row[1])
    /\ b.title = clean_text(row[2])
    /\ b.author = clean_text(row[3])
    /\ b.category = clean_text(row[4])
    /\ b.status = normalize_status(row[5])

\* A library row whose cells other than the bid are acceptable.
acceptable_but_bid(row) == decode_book(library_fieldnames, <<<<"1">>>> \o Tail(row)).ok

StudentLoad(file) ==
    /\ prog = "AOL_Unit2"
    /\ result'.op = "load"
    /\ has_required_columns(file)
    /\ LoadStudents(file, "load")

BookLoad(file) ==
    /\ prog = "Final_Project"
    /\ result'.op = "load"
    /\ LoadBooks(file, "load")

ValidBook(b) ==
    /\ b.title /= <<>> /\ b.author /= <<>> /\ b.category /= <<>>
    /\ b.status \in {ISSUED, AVAILABLE}

student_outcome(file) ==
    IF ~file.exists THEN "absent"
    ELSE IF ~has_required_columns(file) THEN "schema"
    ELSE IF good_rows(body_of(file)) = <<>> THEN "empty"
    ELSE "loaded"

library_outcome(file) ==
    IF ~file.exists THEN "absent"
    ELSE IF file.fieldnames /= library_fieldnames THEN "schema"
    ELSE IF good_book_rows(file.rows) = <<>> THEN "empty"
    ELSE "loaded"

\* One file of each of the three outcomes, for either program.
StudentOutcomeFiles ==
    {NoFile, File(Tail(required_fieldnames), <<>>), OnlyBadRow}

LibraryOutcomeFiles ==
    {NoFile, File(Tail(library_fieldnames), <<>>),
     File(library_fieldnames, <<CHOOSE r \in BadBookRows : r[1] = <<"x">>>>)}

\* What the library's caller gets from a load: the exception and the store.
library_caller_gets(file) ==
    LET got == LibrarySystem_load_from_csv(file)
    IN  <<got.raised, IF got.raised = "ok" THEN got.loaded ELSE <<"unchanged">>>>

LibraryOutcomesDistinct ==
    (BookLoad(input) /\ library_outcome(input) /= "loaded")
    => \A ref \in LibraryOutcomeFiles :
           library_outcome(ref) /= library_outcome(input)
           => library_caller_gets(ref)
                  /= <<result'.status,
                       IF result'.status = "ok" THEN books' ELSE <<"unchanged">>>>

\* C11 as stated: what load returns to its caller differs between a resource
\* that does not exist, a header that lacks a required column, and a load
\* that gave no record.
C11_ReturnDistinguishesOutcomes ==
    [][/\ (prog = "AOL_Unit2" /\ result'.op = "load"
           /\ LoadStudents(input, "load") /\ student_outcome(input) /= "loaded")
          => \A ref \in StudentOutcomeFiles :
                 student_outcome(ref) /= student_outcome(input)
                 => load_from_csv(ref).records /= result'.list
       /\ LibraryOutcomesDistinct]_vars

\* C11, amended: LibrarySystem.load_from_csv tells the three outcomes apart
\* for its caller (FileNotFoundError, RuntimeError, a return with no book);
\* load_from_csv of AOL_Unit2 returns the empty list in all three and tells
\* them apart by the diagnostic it prints.
C11_OutcomesDistinguished ==
    [][/\ (prog = "AOL_Unit2" /\ result'.op = "load"
           /\ LoadStudents(input, "load") /\ student_outcome(input) /= "loaded")
          => /\ result'.list = <<>>
             /\ \A ref \in StudentOutcomeFiles :
                    student_outcome(ref) /= student_outcome(input)
                    => load_from_csv(ref).diag /= result'.status
       /\ LibraryOutcomesDistinct]_vars

\* C11's case: a load of a file whose header lacks a required column.
C11_Witness ==
    /\ result.op = "load"
    /\ input.exists
    /\ input.fieldnames /= <<>>
    /\ result.status \in {"missing_columns", "RuntimeError"}
    /\ result.list = <<>>

\* A line of nothing but whitespace.
blank(raw) == \A i \in 1..Len(raw) : raw[i] \in WHITESPACE

OTHER_GENDER == <<"o", "t", "h", "e", "r">>

\* The step is update_record on a record the store holds, at index idx.
StudentUpdate(target, form) ==
    /\ prog = "AOL_Unit2"
    /\ result'.op = "update"
    /\ result'.status = "updated"
    /\ UpdateStudent(target, form)

\* C12: an update of a record the store holds changes no field whose line
\* was left blank, leaves the record's id, every other record and the order
\* of the store as they were; update_book, which takes all four fields,
\* changes them in the one book it finds and nothing else.
C12_UpdateFrame ==
    [][/\ \A target \in UpdateTargets, form \in UpdateForms :
              StudentUpdate(target, form)
              => LET idx == result'.idx
                     old == records[idx]
                     new == records'[idx]
                 IN  /\ Len(records') = Len(records)
                     /\ \A i \in 1..Len(records) :
                            i /= idx => records'[i] = records[i]
                     /\ new.student_id = old.student_id
                     /\ blank(form.gender) => new.gender = old.gender
                     /\ blank(form.race)
                        => new.race_ethnicity = old.race_ethnicity
                     /\ blank(form.parent_edu)
                        => new.parental_education = old.parental_education
                     /\ blank(form.lunch) => new.lunch = old.lunch
                     /\ blank(form.prep) => new.prep_course = old.prep_course
                     /\ blank(form.math) => new.math_score = old.math_score
                     /\ blank(form.reading)
                        => new.reading_score = old.reading_score
                     /\ blank(form.writing)
                        => new.writing_score = old.writing_score
                     /\ ~blank(form.gender) => new.gender = OTHER_GENDER
       /\ \A bid \in UpdateTargets, args \in UpdateBookInputs :
              (prog = "Final_Project" /\ result'.op = "update"
               /\ UpdateBook(bid, args))
              => /\ Len(books') = Len(books)
                 /\ \A i \in 1..Len(books) :
                        /\ books'[i].bid = books[i].bid
                        /\ i /= result'.idx => books'[i] = books[i]]_vars

\* C12's case: an update has set the gender of one record of several and
\* left blank the line of its prep course.
C12_Witness ==
    /\ prog = "AOL_Unit2"
    /\ result.op = "update"
    /\ result.status = "updated"
    /\ Len(records) >= 2
    /\ records[result.idx].gender = OTHER_GENDER
    /\ records[result.idx].prep_course /= <<>>

\* The lines of the update forms that are no score: no integer, out of range.
InvalidScoreLines == {<<"a", "b", "c">>, <<"1", "0", "1">>}

\* The arguments of update_book that have a title, an author and a category
\* but a status that is not known.
InvalidStatusOnly == {a \in UpdateBookInputs : a.status = <<"l", "o", "s", "t">>}

\* C13 as stated: in an update that supplies several fields, one of them
\* invalid, the invalid field keeps its value and the valid ones are applied.
C13_ValidFieldsStillApplied ==
    [][/\ \A target \in UpdateTargets, form \in UpdateForms :
              (StudentUpdate(target, form) /\ form.math \in InvalidScoreLines)
              => /\ records'[result'.idx].math_score
                        = records[result'.idx].math_score
                 /\ records'[result'.idx].reading_score = 55
       /\ \A bid \in UpdateTargets, args \in InvalidStatusOnly :
              (prog = "Final_Project" /\ result'.op = "update"
               /\ result'.idx /= 0 /\ UpdateBook(bid, args))
              => /\ books'[result'.idx].status = books[result'.idx].status
                 /\ books'[result'.idx].title = clean_text(args.title)]_vars

\* C13, amended: in update_record a score line that is no integer in 0..100
\* is reported, the score keeps its value, and the valid lines of the same
\* update are applied; update_book with any invalid field raises ValueError
\* and applies none of the fields.
C13_InvalidFieldKeepsValue ==
    [][/\ \A target \in UpdateTargets, form \in UpdateForms :
              (StudentUpdate(target, form) /\ form.math \in InvalidScoreLines)
              => /\ records'[result'.idx].math_score
                        = records[result'.idx].math_score
                 /\ result'.skipped = <<"math">>
                 /\ records'[result'.idx].reading_score = 55
                 /\ records'[result'.idx].gender = OTHER_GENDER
       /\ \A bid \in UpdateTargets, args \in InvalidStatusOnly :
              (prog = "Final_Project" /\ result'.op = "update"
               /\ result'.idx /= 0 /\ UpdateBook(bid, args))
              => result'.status = "ValueError" /\ books' = books]_vars

\* C13's case: an update whose math line was invalid has changed the
\* reading score of a record whose math score is not 55.
C13_Witness ==
    /\ prog = "AOL_Unit2"
    /\ result.op = "update"
    /\ result.skipped = <<"math">>
    /\ records[result.idx].reading_score = 55
    /\ records[result.idx].math_score \in {70, 85}

\* The list without its element at index at.
without_index(list, at) == SubSeq(list, 1, at - 1) \o SubSeq(list, at + 1, Len(list))

\* C14: a delete of an id the store holds removes the one record of that
\* id and keeps the others in their order, and a second delete of the same
\* id right after it fails.
C14_DeleteOnce ==
    [][/\ \A target \in Targets \ {0} :
              (prog = "AOL_Unit2" /\ result'.op = "delete"
               /\ DeleteStudent(target, TRUE))
              => /\ (\E i \in 1..Len(records) : records[i].student_id = target)
                    => /\ result'.status = "deleted"
                       /\ records' = without_index(records, result'.idx)
                       /\ \A i \in 1..Len(records') :
                              records'[i].student_id /= target
                 /\ (result.op = "delete" /\ result.status = "deleted"
                     /\ result.id = target)
                    => result'.status \in {"not_found", "no_data"}
       /\ \A bid \in Targets :
              (prog = "Final_Project" /\ result'.op = "delete" /\ DeleteBook(bid))
              => /\ (\E i \in 1..Len(books) : books[i].bid = bid)
                    => /\ result'.status = "ok"
                       /\ books' = without_index(books, find_by_id_linear(books, bid))
                       /\ \A i \in 1..Len(books') : books'[i].bid /= bid
                 /\ (result.op = "delete" /\ result.status = "ok"
                     /\ result.id = bid)
                    => result'.status = "LookupError"]_vars

\* C15: an update or a delete that names an id no record holds, and an
\* update_book with an invalid field, reports the error and leaves the
\* store as it was.
C15_FailedEditLeavesStore ==
    [][/\ \A target \in UpdateTargets, form \in UpdateForms :
              (prog = "AOL_Unit2" /\ result'.op = "update"
               /\ UpdateStudent(target, form)
               /\ \A i \in 1..Len(records) : records[i].student_id /= target)
              => result'.status \in {"not_found", "no_data"} /\ records' = records
       /\ \A target \in Targets \ {0} :
              (prog = "AOL_Unit2" /\ result'.op = "delete"
               /\ DeleteStudent(target, TRUE)
               /\ \A i \in 1..Len(records) : records[i].student_id /= target)
              => result'.status \in {"not_found", "no_data"} /\ records' = records
       /\ \A bid \in UpdateTargets, args \in UpdateBookInputs :
              (prog = "Final_Project" /\ result'.op = "update"
               /\ UpdateBook(bid, args))
              => /\ (\A i \in 1..Len(books) : books[i].bid /= bid)
                    => result'.status = "LookupError" /\ books' = books
                 /\ ((\E i \in 1..Len(books) : books[i].bid = bid)
                     /\ (blank(args.title) \/ args \in InvalidStatusOnly))
                    => result'.status = "ValueError" /\ books' = books
       /\ \A bid \in Targets :
              (prog = "Final_Project" /\ result'.op = "delete" /\ DeleteBook(bid)
               /\ \A i \in 1..Len(books) : books[i].bid /= bid)
              => result'.status = "LookupError" /\ books' = books]_vars

\* C15's case: update_book has raised ValueError for a book that a store of
\* several books holds.
C15_Witness ==
    /\ prog = "Final_Project"
    /\ result.op = "update"
    /\ result.status = "ValueError"
    /\ result.idx /= 0
    /\ Len(books) >= 2

\* C16: in every state that loads, adds, updates, deletes and sorts
\* reach, the math, reading and writing scores of every record of the
\* store are in 0..100.
C16_ScoresInBounds ==
    \A i \in 1..Len(records) :
        /\ records[i].math_score \in 0..100
        /\ records[i].reading_score \in 0..100
        /\ records[i].writing_score \in 0..100

\* C16's case: the load of a file with a score above 100 has stored the row
\* before it alone, and warned about the other.
C16_Witness ==
    /\ prog = "AOL_Unit2"
    /\ result.op = "load"
    /\ result.skipped /= <<>>
    /\ Len(result.list) = 1
    /\ records = result.list

\* The text is not empty and neither starts nor ends with whitespace.
trimmed(text) == text /= <<>> /\ strip(text) = text

\* C17: in every state that loads, adds, updates and deletes reach, every
\* required text field of every record and of every book is not empty and
\* has no whitespace at its ends.
C17_TextsTrimmed ==
    /\ \A i \in 1..Len(records) :
           /\ trimmed(records[i].gender)
           /\ trimmed(records[i].race_ethnicity)
           /\ trimmed(records[i].parental_education)
           /\ trimmed(records[i].lunch)
           /\ trimmed(records[i].prep_course)
    /\ \A i \in 1..Len(books) :
           /\ trimmed(books[i].title)
           /\ trimmed(books[i].author)
           /\ trimmed(books[i].category)

\* C17's case: update_book has stored a title that was typed with spaces
\* around it.
C17_Witness ==
    /\ prog = "Final_Project"
    /\ result.op = "update"
    /\ result.status = "ok"
    /\ result.idx /= 0
    /\ books[result.idx].title = <<"C">>

\* C18: in every reachable state, the state right after the load of any
\* file included, no two records of the store have the same id.
C18_IdsDistinctAfterLoad ==
    /\ \A i, j \in 1..Len(records) :
           i /= j => records[i].student_id /= records[j].student_id
    /\ \A i, j \in 1..Len(books) : i /= j => books[i].bid /= books[j].bid

\* C19: in every reachable state, every id of the store, given by a load or
\* by an add, is at least 1.
C19_IdsPositive ==
    /\ \A i \in 1..Len(records) : records[i].student_id >= 1
    /\ \A i \in 1..Len(books) : books[i].bid >= 1

\* The float is the undefined sentinel.
isnan(x) == x.den = 0

\* C20 as stated: mean, standard deviation, min and max of an empty list
\* each give NaN and none raises, in both programs.
C20_EmptyStatisticsAreNaN ==
    (scores = <<>> /\ result.op \in {"mean", "stdev", "s_min", "s_max", "s_average"})
    => result.status = "ok" /\ isnan(result.list[1])

\* C20: no statistic raises on an empty input. mean and stdev of AOL_Unit2
\* give NaN for an empty list; summary_statistics of an empty store says
\* there is no data and computes no mean, stdev, min or max, and of a store
\* with records it ends well with no NaN in its lines; s_min, s_max and
\* s_average of Unit 3 Lesson 3 A give 0, 0 and 0.0 for an empty list, and
\* analyze prints "No scores" and the average 0.0.
C20_EmptyStatisticsDefined ==
    /\ result.op \in {"mean", "stdev", "s_min", "s_max", "s_average",
                      "summary", "analyze"}
       => result.status \in {"ok", "no_data", "no_scores"}
    /\ result.op \in {"mean", "stdev"}
       => (isnan(result.list[1]) <=> scores = <<>>)
    /\ result.op = "summary"
       => /\ result.status = "no_data" <=> records = <<>>
          /\ records = <<>> => result.list = <<>>
          /\ \A i \in 1..Len(result.list) :
                 \A j \in 1..Len(result.list[i]) : ~isnan(result.list[i][j])
    /\ (result.op \in {"s_min", "s_max", "s_average"} /\ scores = <<>>)
       => result.list = <<Float(0, 1)>>
    /\ result.op = "analyze"
       => /\ result.status = "no_scores" <=> scores = <<>>
          /\ scores = <<>> => result.list = <<Float(0, 1)>>

\* C20's case: s_average has been applied to the empty list.
C20_Witness ==
    /\ prog = "Unit3_Lesson3A"
    /\ scores = <<>>
    /\ result.op = "s_average"
    /\ result.list = <<Float(0, 1)>>

\* The books of the list whose title, lowered, is t; in their order.
books_titled(bks, t) == SelectSeq(bks, LAMBDA b : lower(b.title) = t)

\* The records of the list whose field of the choice, lowered, is t.
records_with(recs, choice, t) ==
    SelectSeq(recs, LAMBDA r : lower(filter_field(r, choice)) = t)

\* C21 as stated: the search by title gives the books whose title is the
\* trimmed value typed, compared without case, all of them and in the order
\* of the store, and changes nothing.
C21_TitleEqualsTrimmedValue ==
    [][\A title \in TitleQueries :
           (prog = "Final_Project" /\ result'.op = "find_title"
            /\ FindByTitle(title))
           => /\ books' = books
              /\ result'.list = books_titled(books, lower(strip(title)))]_vars

\* C21: the search by title gives all the books whose title, lowered, is the
\* value typed once cleaned (trimmed, and every run of whitespace inside it
\* made one space) and lowered; a display filter gives all the records whose
\* field, lowered, is the line typed once trimmed and lowered; both in the
\* order of the store, which they leave as it was.
C21_SearchByText ==
    [][/\ \A title \in TitleQueries :
              (prog = "Final_Project" /\ result'.op = "find_title"
               /\ FindByTitle(title))
              => /\ books' = books
                 /\ result'.list = books_titled(books, lower(clean_text(title)))
       /\ \A choice \in 2..4, line \in FilterLines :
              (prog = "AOL_Unit2" /\ result'.op = "display"
               /\ DisplayRecords(choice, line))
              => /\ records' = records
                 /\ result'.list = records_with(records, choice,
                                                lower(strip(line)))]_vars

\* C21's case: the search by title has found two books of the store, one
\* after the other.
C21_Witness ==
    /\ prog = "Final_Project"
    /\ result.op = "find_title"
    /\ Len(result.list) = 2
    /\ Len(books) = 3
    /\ result.list[1].bid /= result.list[2].bid

\* The attributes of a Pokemon that no method assigns.
fixed_attributes(p) ==
    <<p.name, p.level, p.max_hp, p.atk_power, p.def_power, p.owner>>

\* The doctest of the class Pokemon: Pikachu (hp 100, atk 20, def 5) and
\* Bulbasaur (hp 150, atk 15, def 10) attack each other for 10, and
\* Bulbasaur heals to 150.
PokemonDoctest ==
    LET made == <<Pokemon("Pikachu", 10, 100, 20, 5),
                  Pokemon("Bulbasaur", 10, 150, 15, 10)>>
        first == attack(made, 1, 2)
        second == attack(first, 2, 1)
    IN  /\ calculate_dmg(made[1], made[2]) = 10
        /\ first[2].curr_hp = 140
        /\ calculate_dmg(first[2], first[1]) = 10
        /\ second[1].curr_hp = 90
        /\ heal(second[2]).curr_hp = 150

\* C22: attack(other) lowers other.curr_hp by max(1, atk_power of the
\* attacker - def_power of other), makes other fainted when its curr_hp is
\* then 0 or less, and changes nothing else, of the attacker in particular;
\* heal() makes curr_hp max_hp and fainted False; the doctest of the class
\* gives what it says.
C22_AttackAndHeal ==
    /\ PokemonDoctest
    /\ [][/\ \A self \in 1..2, other \in 1..2 :
                 (prog = "pokemon_assignment" /\ result'.op = "attack"
                  /\ Attack(self, other))
                 => LET diff == pokemon[self].atk_power - pokemon[other].def_power
                        dmg == IF diff > 1 THEN diff ELSE 1
                    IN  /\ pokemon'[other].curr_hp = pokemon[other].curr_hp - dmg
                        /\ pokemon'[other].fainted
                               = (pokemon[other].fainted
                                  \/ pokemon'[other].curr_hp <= 0)
                        /\ fixed_attributes(pokemon'[other])
                               = fixed_attributes(pokemon[other])
                        /\ self /= other => pokemon'[self] = pokemon[self]
          /\ \A self \in 1..2 :
                 (prog = "pokemon_assignment" /\ result'.op = "heal"
                  /\ Heal(self))
                 => /\ pokemon'[self].curr_hp = pokemon[self].max_hp
                    /\ ~pokemon'[self].fainted
                    /\ fixed_attributes(pokemon'[self])
                           = fixed_attributes(pokemon[self])
                    /\ pokemon'[3 - self] = pokemon[3 - self]]_vars

\* C22's case: an attack weaker than the defense has dealt 1 and made the
\* other Pokemon faint.
C22_Witness ==
    /\ prog = "pokemon_assignment"
    /\ result.op = "attack"
    /\ result.id /= result.idx
    /\ pokemon[result.id].atk_power < pokemon[result.idx].def_power
    /\ pokemon[result.idx].curr_hp = pokemon[result.idx].max_hp - 1
    /\ pokemon[result.idx].fainted

\* The Pokemon that the turn simple_battle is at attacks.
defender == IF battle.at = "turn1" THEN battle.pokemon2 ELSE battle.pokemon1

\* C27: simple_battle terminates on every pair of Pokemon. Each of its
\* attacks lowers the hp of the one attacked by 1 or more, the loop exits at
\* the first attack that leaves the one attacked with an hp of 0 or less,
\* that Pokemon being then fainted, and at no other; and every battle that
\* has started is over in the end.
C27_BattleTerminates ==
    /\ [][(prog = "pokemon_assignment" /\ battle.at /= "idle"
           /\ battle' /= battle)
          => /\ pokemon'[defender].curr_hp < pokemon[defender].curr_hp
             /\ battle'.at = "idle" <=> pokemon'[defender].curr_hp <= 0
             /\ battle'.at = "idle" => pokemon'[defender].fainted]_vars
    /\ (battle.at /= "idle") ~> (battle.at = "idle")

\* C27's case: a battle is over at pokemon2's attack, after attacks of
\* pokemon1 that did not make pokemon2 faint.
C27_Witness ==
    /\ prog = "pokemon_assignment"
    /\ result.op = "battle"
    /\ result.status = "over"
    /\ result.id = 2
    /\ result.idx = 1
    /\ pokemon[1].curr_hp <= 0
    /\ pokemon[2].curr_hp < pokemon[2].max_hp
    /\ ~pokemon[2].fainted

\* How many times x is in the list.
occurrences(list, x) == Cardinality({i \in 1..Len(list) : list[i] = x})

\* The two lists hold the same elements, each as many times.
is_permutation(a, b) ==
    /\ Len(a) = Len(b)
    /\ \A i \in 1..Len(a) : occurrences(a, a[i]) = occurrences(b, a[i])

\* C23: the manual insertion sort, with any key and in either direction,
\* gives the records it was given, each once and unchanged, and so does the
\* insertion sort by title with the books.
C23_SortPermutes ==
    /\ \A key \in SortKeys, reverse \in BOOLEAN :
           is_permutation(insertion_sort(records, key, reverse), records)
    /\ is_permutation(insertion_sort_by_title(books), books)

\* C23's case: three records or more that a sort by math score reorders in
\* either direction.
C23_Witness ==
    /\ prog = "AOL_Unit2"
    /\ Len(records) >= 3
    /\ insertion_sort(records, "math", FALSE) /= records
    /\ insertion_sort(records, "math", TRUE) /= records

\* Where x is in the list.
position(list, x) == CHOOSE p \in 1..Len(list) : list[p] = x

\* The list from its last element to its first.
reversed(list) == [i \in 1..Len(list) |-> list[Len(list) + 1 - i]]

\* C24: the manual insertion sort keeps two records of the same key in the
\* order they had, ascending and descending, so that with such records the
\* descending result is not the ascending one reversed; the insertion sort
\* by title keeps two books of the same title, case ignored, in their order.
C24_SortStable ==
    /\ \A key \in SortKeys :
           /\ \A reverse \in BOOLEAN :
                  LET after == insertion_sort(records, key, reverse)
                  IN  \A i, j \in 1..Len(records) :
                          (i < j /\ float_eq(key_fn(key, records[i]),
                                             key_fn(key, records[j])))
                          => position(after, records[i])
                                 < position(after, records[j])
           /\ (\E i, j \in 1..Len(records) :
                   i < j /\ float_eq(key_fn(key, records[i]),
                                     key_fn(key, records[j])))
              => insertion_sort(records, key, TRUE)
                     /= reversed(insertion_sort(records, key, FALSE))
    /\ LET after == insertion_sort_by_title(books)
       IN  \A i, j \in 1..Len(books) :
               (i < j /\ lower(books[i].title) = lower(books[j].title)
                /\ books[i] /= books[j])
               => position(after, books[i]) < position(after, books[j])

\* C24's case: two records of the same math score with one of a higher
\* score between them, which a descending sort moves to the front.
C24_Witness ==
    /\ prog = "AOL_Unit2"
    /\ Len(records) = 3
    /\ records[1].math_score = records[3].math_score
    /\ records[2].math_score > records[1].math_score
    /\ insertion_sort(records, "math", TRUE)
           = <<records[2], records[1], records[3]>>

\* C25: a load that fails, for a missing file, a missing header column or
\* an error of the read, leaves the records and the books of the store as
\* they were.
C25_FailedLoadKeepsStore ==
    [][/\ (prog = "AOL_Unit2" /\ result'.op = "load" /\ result' /= result
           /\ result'.status /= "ok")
          => records' = records
       /\ (prog = "Final_Project" /\ result'.op = "load" /\ result' /= result
           /\ result'.status /= "ok")
          => books' = books]_vars

\* C26: after any loads, add_book, update_book and delete_book, the status
\* of every book of the store is 'issued' or 'available'.
C26_StatusIssuedOrAvailable ==
    \A i \in 1..Len(books) : books[i].status \in {ISSUED, AVAILABLE}

\* C26's case: update_book has given a book the status typed as "Available",
\* in a store of several books.
C26_Witness ==
    /\ prog = "Final_Project"
    /\ result.op = "update"
    /\ result.status = "ok"
    /\ result.idx /= 0
    /\ Len(books) >= 2
    /\ books[result.idx].author = <<"M">>
    /\ books[result.idx].status = AVAILABLE

=============================================================================
